---- MODULE Spec2Model ----
(***************************************************************************)
(* A model of the academic tracker: the session record store of            *)
(* utils/data_manager.py and the analyzers of enhanced_calculations.py /   *)
(* utils/calculations2.py / enhanced_analytics.py.                         *)
(*                                                                         *)
(* Numbers are exact rationals (Python floats without rounding), with      *)
(* NaN, +-inf, None and text as further kinds of value. A date string is   *)
(* a record saying whether it is in %Y-%m-%d form and, if so, which day.   *)
(* The clock counts half days: an even reading is midnight.                *)
(***************************************************************************)
EXTENDS Integers, Sequences, FiniteSets, TLC

(***************************************************************************)
(* Values                                                                  *)
(***************************************************************************)
Abs(i) == IF i < 0 THEN -i ELSE i

RECURSIVE GCD(_, _)
GCD(a, b) == IF b = 0 THEN a ELSE GCD(b, a % b)

\* The rational n/d in lowest terms with a positive denominator.
Rat(n, d) ==
    LET g == GCD(Abs(n), Abs(d))
        s == IF d < 0 THEN -1 ELSE 1
    IN  [k |-> "num", n |-> (s * n) \div g, d |-> (s * d) \div g]

Num(i) == [k |-> "num", n |-> i, d |-> 1]
NaN == [k |-> "nan", n |-> 0, d |-> 1]
PosInf == [k |-> "inf", n |-> 1, d |-> 1]
NegInf == [k |-> "inf", n |-> -1, d |-> 1]
None == [k |-> "none", n |-> 0, d |-> 1]
\* A text that is not a number, such as "abc".
Text == [k |-> "str", n |-> 0, d |-> 1]

IsNum(v) == v.k = "num"
IsNaN(v) == v.k = "nan"

\* Arithmetic and comparison of finite numbers.
Add(a, b) == Rat(a.n * b.d + b.n * a.d, a.d * b.d)
Sub(a, b) == Rat(a.n * b.d - b.n * a.d, a.d * b.d)
Mul(a, b) == Rat(a.n * b.n, a.d * b.d)
Div(a, b) == Rat(a.n * b.d, a.d * b.n)
Lt(a, b) == a.n * b.d < b.n * a.d
Le(a, b) == a.n * b.d <= b.n * a.d
Gt(a, b) == Lt(b, a)
Ge(a, b) == Le(b, a)

\* Python truthiness of a value: 0, None and NaN-free emptiness are false.
Truthy(v) == CASE v.k = "num" -> v.n # 0
               [] v.k = "none" -> FALSE
               [] OTHER -> TRUE

\* float(x) for a number: the same number.
float(v) == Rat(v.n, v.d)

(***************************************************************************)
(* Dates                                                                   *)
(***************************************************************************)
\* The string strftime("%Y-%m-%d") gives for a day, and a string that is not a date.
DateStr(day) == [fmt |-> "ymd", day |-> day]
BadDate == [fmt |-> "bad", day |-> 0]

\* The clock reading the session starts at: midday of day 225 (2025-08-13).
StartNow == 2 * 225 + 1

\* The day of a clock reading (datetime.now().date()).
DayOf(t) == t \div 2

\* datetime.now().strftime("%Y-%m-%d")
strftime(t) == DateStr(DayOf(t))

(***************************************************************************)
(* Records with optional fields (Python dicts)                             *)
(***************************************************************************)
Has(r, f) == f \in DOMAIN r
Put(r, f, v) == [x \in (DOMAIN r) \cup {f} |-> IF x = f THEN v ELSE r[x]]
\* dict.get(f): the field, or "" standing for None when it is absent.
Get(r, f) == IF Has(r, f) THEN r[f] ELSE ""

\* del s[i], with i counted from 0.
DelAt(s, i) == SubSeq(s, 1, i) \o SubSeq(s, i + 2, Len(s))
\* s[i] = v, with i counted from 0.
SetAt(s, i, v) == [s EXCEPT ![i + 1] = v]

(***************************************************************************)
(* The record store (st.session_state)                                     *)
(***************************************************************************)
VARIABLES courses, carry_marks, final_exams, assignments, sample_data_loaded,
          now, last, nops

store == <<courses, carry_marks, final_exams, assignments, sample_data_loaded>>
vars == <<courses, carry_marks, final_exams, assignments, sample_data_loaded,
          now, last, nops>>

Course(code, cw, ew) == [code |-> code, carry_weight |-> cw, exam_weight |-> ew]

get_default_courses ==
    << Course("BSD 1323", 60, 40), Course("BSD 2143", 60, 40),
       Course("BUM 2413", 60, 40), Course("BUM 2123", 60, 40),
       Course("BCU 1023", 60, 40), Course("ULS 1312", 60, 40),
       Course("UHE 3032", 60, 40) >>

Mark(code, e, m, w, fc, p, day) ==
    [course_code |-> code, earned |-> Num(e), max_possible |-> Num(m),
     weight_percentage |-> Num(w), final_contribution |-> fc, percentage |-> p,
     date_added |-> DateStr(day)]

\* Days are counted from 2025-01-01 = day 1.
get_sample_carry_marks ==
    << Mark("BSD 1323", 18, 20, 10, Num(9), Num(90), 15),
       Mark("BSD 1323", 42, 50, 25, Num(21), Num(84), 22),
       Mark("BSD 2143", 35, 40, 20, Rat(35, 2), Rat(175, 2), 20),
       Mark("BUM 2413", 28, 30, 15, Num(14), Rat(933, 10), 18) >>

Assignment(title, code, day, status) ==
    [title |-> title, course_code |-> code, due_date |-> DateStr(day),
     status |-> status]

get_sample_assignments ==
    << Assignment("Data Visualization Dashboard", "BSD 1323", 227, "pending"),
       Assignment("Linear Programming Exercise", "BSD 2143", 222, "completed"),
       Assignment("Hypothesis Testing Report", "BUM 2413", 232, "pending"),
       Assignment("Calculus Problem Set 3", "BUM 2123", 220, "completed"),
       Assignment("Python Programming Assignment", "BCU 1023", 237, "in_progress") >>

\* What the last call was: its name, its index argument (or -9), its other
\* arguments (or <<>>), what it returned (for a store operation, whether it
\* took effect), the arguments as the call left them, the clock reading at
\* the call, and, when the call before it was the same call with the same
\* arguments, that call's clock reading and result.
NoPrev == [at |-> -1, ret |-> <<>>]
Did(op, idx, arg, ret) ==
    [op |-> op, idx |-> idx, arg |-> arg, ret |-> ret, after |-> arg,
     at |-> now, again |-> FALSE, prev |-> NoPrev]

initialize_session_state ==
    /\ courses = get_default_courses
    /\ carry_marks = <<>>
    /\ final_exams = <<>>
    /\ assignments = <<>>
    /\ sample_data_loaded = FALSE

Init ==
    /\ initialize_session_state
    /\ now = StartNow
    /\ last = Did("init", -9, <<>>, TRUE)
    /\ nops = 0

\* The number of store operations one run makes.
MaxOps == 3

\* 0 <= index < len(s)
InRange(index, s) == 0 <= index /\ index < Len(s)

Step(op, idx, arg, ret) ==
    /\ nops < MaxOps
    /\ nops' = nops + 1
    /\ last' = Did(op, idx, arg, ret)
    /\ now' = now

(***************************************************************************)
(* Courses                                                                 *)
(***************************************************************************)
add_course(course_data) ==
    /\ Step("add_course", -9, course_data, TRUE)
    /\ courses' = Append(courses, course_data)
    /\ UNCHANGED <<carry_marks, final_exams, assignments, sample_data_loaded>>

update_course(index, course_data) ==
    /\ Step("update_course", index, course_data, InRange(index, courses))
    /\ courses' = IF InRange(index, courses)
                  THEN SetAt(courses, index, course_data) ELSE courses
    /\ UNCHANGED <<carry_marks, final_exams, assignments, sample_data_loaded>>

\* delete_course with the cascade to the assignments left out.
delete_course_keeps_assignments(index) ==
    /\ Step("delete_course", index,
            IF InRange(index, courses) THEN courses[index + 1] ELSE <<>>,
            InRange(index, courses))
    /\ IF InRange(index, courses)
       THEN LET course_code == courses[index + 1].code
                Other(r) == Get(r, "course_code") # course_code
            IN  /\ carry_marks' = SelectSeq(carry_marks, Other)
                /\ assignments' = assignments
                /\ final_exams' = SelectSeq(final_exams, Other)
                /\ courses' = DelAt(courses, index)
       ELSE UNCHANGED <<courses, carry_marks, final_exams, assignments>>
    /\ UNCHANGED sample_data_loaded

\* delete_course removing every course that has the code of the indexed one.
delete_course_by_code(index) ==
    /\ Step("delete_course", index,
            IF InRange(index, courses) THEN courses[index + 1] ELSE <<>>,
            InRange(index, courses))
    /\ IF InRange(index, courses)
       THEN LET course_code == courses[index + 1].code
                Other(r) == Get(r, "course_code") # course_code
                OtherCourse(c) == c.code # course_code
            IN  /\ carry_marks' = SelectSeq(carry_marks, Other)
                /\ assignments' = SelectSeq(assignments, Other)
                /\ final_exams' = SelectSeq(final_exams, Other)
                /\ courses' = SelectSeq(courses, OtherCourse)
       ELSE UNCHANGED <<courses, carry_marks, final_exams, assignments>>
    /\ UNCHANGED sample_data_loaded

delete_course(index) ==
    /\ Step("delete_course", index,
            IF InRange(index, courses) THEN courses[index + 1] ELSE <<>>,
            InRange(index, courses))
    /\ IF InRange(index, courses)
       THEN LET course_code == courses[index + 1].code
                Other(r) == Get(r, "course_code") # course_code
            IN  /\ carry_marks' = SelectSeq(carry_marks, Other)
                /\ assignments' = SelectSeq(assignments, Other)
                /\ final_exams' = SelectSeq(final_exams, Other)
                /\ courses' = DelAt(courses, index)
       ELSE UNCHANGED <<courses, carry_marks, final_exams, assignments>>
    /\ UNCHANGED sample_data_loaded

(***************************************************************************)
(* Carry marks                                                             *)
(***************************************************************************)
Zero == Num(0)
One == Num(1)
Hundred == Num(100)

\* The percentage derivation with the "* 100" left out.
WithPercentageAsFraction(carry_data) ==
    IF ~Has(carry_data, "percentage") /\ Has(carry_data, "earned")
       /\ Has(carry_data, "max_possible")
    THEN LET max_possible == IF Truthy(carry_data.max_possible)
                             THEN float(carry_data.max_possible) ELSE One
         IN  Put(carry_data, "percentage",
                 IF Gt(max_possible, Zero)
                 THEN Div(float(carry_data.earned), max_possible)
                 ELSE Zero)
    ELSE carry_data

\* "Calculate percentage if not provided": for a record with earned and
\* max_possible and no percentage, a max_possible of 0 counts as 1 and a
\* negative one gives 0.
WithPercentage(carry_data) ==
    IF ~Has(carry_data, "percentage") /\ Has(carry_data, "earned")
       /\ Has(carry_data, "max_possible")
    THEN LET max_possible == IF Truthy(carry_data.max_possible)
                             THEN float(carry_data.max_possible) ELSE One
         IN  Put(carry_data, "percentage",
                 IF Gt(max_possible, Zero)
                 THEN Mul(Div(float(carry_data.earned), max_possible), Hundred)
                 ELSE Zero)
    ELSE carry_data

\* "Calculate final contribution if weight is provided"
WithContribution(carry_data) ==
    IF Has(carry_data, "weight_percentage") /\ Has(carry_data, "percentage")
    THEN LET weight == IF Truthy(carry_data.weight_percentage)
                       THEN float(carry_data.weight_percentage) ELSE Zero
             percentage == IF Truthy(carry_data.percentage)
                           THEN float(carry_data.percentage) ELSE Zero
         IN  Put(carry_data, "final_contribution",
                 Mul(Div(percentage, Hundred), weight))
    ELSE carry_data

add_carry_mark(carry_data) ==
    /\ Step("add_carry_mark", -9, carry_data, TRUE)
    /\ carry_marks' =
          Append(carry_marks,
                 Put(WithContribution(WithPercentage(carry_data)),
                     "date_added", strftime(now)))
    /\ UNCHANGED <<courses, final_exams, assignments, sample_data_loaded>>

update_carry_mark(index, carry_data) ==
    /\ Step("update_carry_mark", index, carry_data, InRange(index, carry_marks))
    /\ carry_marks' =
          IF InRange(index, carry_marks)
          THEN SetAt(carry_marks, index, WithContribution(WithPercentage(carry_data)))
          ELSE carry_marks
    /\ UNCHANGED <<courses, final_exams, assignments, sample_data_loaded>>

\* delete_carry_mark without the lower bound of the test: a negative index
\* counts from the end of the list, as Python's del does.
delete_carry_mark_from_the_end(index) ==
    /\ Step("delete_carry_mark", index, <<>>, InRange(index, carry_marks))
    /\ carry_marks' = IF InRange(index, carry_marks) THEN DelAt(carry_marks, index)
                      ELSE IF index < 0 /\ -index <= Len(carry_marks)
                      THEN DelAt(carry_marks, Len(carry_marks) + index)
                      ELSE carry_marks
    /\ UNCHANGED <<courses, final_exams, assignments, sample_data_loaded>>

delete_carry_mark(index) ==
    /\ Step("delete_carry_mark", index, <<>>, InRange(index, carry_marks))
    /\ carry_marks' = IF InRange(index, carry_marks)
                      THEN DelAt(carry_marks, index) ELSE carry_marks
    /\ UNCHANGED <<courses, final_exams, assignments, sample_data_loaded>>

(***************************************************************************)
(* Assignments and final exams                                             *)
(***************************************************************************)
add_assignment(assignment_data) ==
    /\ Step("add_assignment", -9, assignment_data, TRUE)
    /\ assignments' = Append(assignments, assignment_data)
    /\ UNCHANGED <<courses, carry_marks, final_exams, sample_data_loaded>>

update_assignment_status(index, new_status) ==
    /\ Step("update_assignment_status", index, <<>>, InRange(index, assignments))
    /\ assignments' =
          IF InRange(index, assignments)
          THEN SetAt(assignments, index,
                     Put(assignments[index + 1], "status", new_status))
          ELSE assignments
    /\ UNCHANGED <<courses, carry_marks, final_exams, sample_data_loaded>>

delete_assignment(index) ==
    /\ Step("delete_assignment", index, <<>>, InRange(index, assignments))
    /\ assignments' = IF InRange(index, assignments)
                      THEN DelAt(assignments, index) ELSE assignments
    /\ UNCHANGED <<courses, carry_marks, final_exams, sample_data_loaded>>

\* The final-exam page appends its records to st.session_state.final_exams.
add_final_exam(exam_data) ==
    /\ Step("add_final_exam", -9, exam_data, TRUE)
    /\ final_exams' = Append(final_exams, exam_data)
    /\ UNCHANGED <<courses, carry_marks, assignments, sample_data_loaded>>

(***************************************************************************)
(* Sample data and import                                                  *)
(***************************************************************************)
\* load_sample_data without the test of the flag.
load_sample_data_every_time ==
    /\ Step("load_sample_data", -9, <<>>, TRUE)
    /\ carry_marks' = get_sample_carry_marks
    /\ assignments' = get_sample_assignments
    /\ sample_data_loaded' = TRUE
    /\ UNCHANGED <<courses, final_exams>>

load_sample_data ==
    /\ Step("load_sample_data", -9, <<>>, ~sample_data_loaded)
    /\ IF ~sample_data_loaded
       THEN /\ carry_marks' = get_sample_carry_marks
            /\ assignments' = get_sample_assignments
            /\ sample_data_loaded' = TRUE
       ELSE UNCHANGED <<carry_marks, assignments, sample_data_loaded>>
    /\ UNCHANGED <<courses, final_exams>>

\* What import_data_from_dict may be handed: a dict of lists of records under
\* some of the three keys, None, or a list of key names.
Dict(items) == [kind |-> "dict", items |-> items]
NoneArg == [kind |-> "none"]
ListArg(names) == [kind |-> "list", names |-> names]

\* key in data_dict: "raise" for None, which supports no membership test.
Contains(data_dict, key) ==
    CASE data_dict.kind = "dict" -> IF key \in DOMAIN data_dict.items THEN "yes" ELSE "no"
      [] data_dict.kind = "list" -> IF key \in data_dict.names THEN "yes" ELSE "no"
      [] OTHER -> "raise"

\* data_dict[key] works for a dict that has the key (TypeError for a list,
\* KeyError for a missing key).
CanSubscript(data_dict, key) ==
    data_dict.kind = "dict" /\ key \in DOMAIN data_dict.items

\* One "if key in data_dict: st.session_state.key = data_dict[key]" of the try
\* block, on the store so far; nothing runs once an exception was raised.
ImportKey(s, data_dict, key) ==
    IF s.raised THEN s
    ELSE CASE Contains(data_dict, key) = "raise" -> [s EXCEPT !.raised = TRUE]
           [] Contains(data_dict, key) = "no" -> s
           [] OTHER -> IF CanSubscript(data_dict, key)
                       THEN [s EXCEPT ![key] = data_dict.items[key]]
                       ELSE [s EXCEPT !.raised = TRUE]

\* The same without the "if key in data_dict" guard.
ImportKeyUnguarded(s, data_dict, key) ==
    IF s.raised THEN s
    ELSE IF CanSubscript(data_dict, key)
         THEN [s EXCEPT ![key] = data_dict.items[key]]
         ELSE [s EXCEPT !.raised = TRUE]

\* The try block: the three guarded assignments in order, from the store as it is.
ImportResult(data_dict) ==
    LET s0 == [courses |-> courses, carry_marks |-> carry_marks,
               assignments |-> assignments, raised |-> FALSE]
        s1 == ImportKey(s0, data_dict, "courses")
        s2 == ImportKey(s1, data_dict, "carry_marks")
    IN  ImportKey(s2, data_dict, "assignments")

ImportResultUnguarded(data_dict) ==
    LET s0 == [courses |-> courses, carry_marks |-> carry_marks,
               assignments |-> assignments, raised |-> FALSE]
        s1 == ImportKeyUnguarded(s0, data_dict, "courses")
        s2 == ImportKeyUnguarded(s1, data_dict, "carry_marks")
    IN  ImportKeyUnguarded(s2, data_dict, "assignments")

\* import_data_from_dict with every key subscripted unconditionally.
import_data_from_dict_unguarded(data_dict) ==
    LET r == ImportResultUnguarded(data_dict)
    IN  /\ Step("import_data_from_dict", -9, data_dict, ~r.raised)
        /\ courses' = r.courses
        /\ carry_marks' = r.carry_marks
        /\ assignments' = r.assignments
        /\ UNCHANGED <<final_exams, sample_data_loaded>>

\* Returns True unless an exception was raised; what was assigned before the
\* exception stays assigned.
import_data_from_dict(data_dict) ==
    LET r == ImportResult(data_dict)
    IN  /\ Step("import_data_from_dict", -9, data_dict, ~r.raised)
        /\ courses' = r.courses
        /\ carry_marks' = r.carry_marks
        /\ assignments' = r.assignments
        /\ UNCHANGED <<final_exams, sample_data_loaded>>

(***************************************************************************)
(* The clock, and the inputs tried                                         *)
(***************************************************************************)
\* Half a day passes between two operations.
Tick ==
    /\ nops < MaxOps
    /\ nops' = nops + 1
    /\ now' = now + 1
    /\ UNCHANGED <<courses, carry_marks, final_exams, assignments,
                   sample_data_loaded, last>>

MaxIndex == 1
Indexes == -1 .. MaxIndex

CourseInputs == { Course("XYZ 9999", 50, 50), Course("BSD 2143", 70, 30) }

\* Carry marks as the caller may give them: without a percentage (ordinary,
\* more earned than possible, nothing possible, a negative maximum, no
\* maximum at all) and with one.
CarryInputs ==
    { [course_code |-> "BSD 1323", earned |-> Num(18), max_possible |-> Num(20),
       weight_percentage |-> Num(10)],
      [course_code |-> "BSD 2143", earned |-> Num(120), max_possible |-> Num(100),
       weight_percentage |-> Num(20)],
      [course_code |-> "BSD 2143", earned |-> Num(5), max_possible |-> Num(0),
       weight_percentage |-> Num(10)],
      [course_code |-> "BSD 1323", earned |-> Num(5), max_possible |-> Num(-10)],
      [course_code |-> "BSD 1323", earned |-> Num(7)],
      [course_code |-> "XYZ 9999", earned |-> Num(3), max_possible |-> Num(4),
       percentage |-> Num(80), weight_percentage |-> Num(0),
       final_contribution |-> Num(5)] }

AssignmentInputs ==
    { Assignment("Essay", "BSD 1323", 230, "pending"),
      Assignment("Quiz prep", "XYZ 9999", 226, "completed") }

Statuses == {"pending", "in_progress", "completed"}

ExamInputs == { [course_code |-> "BSD 1323"], [course_code |-> "BSD 2143"] }

ImportInputs ==
    { Dict([courses |-> <<Course("XYZ 9999", 50, 50)>>]),
      Dict([carry_marks |-> <<[course_code |-> "BSD 1323", earned |-> Num(18),
                               max_possible |-> Num(20)]>>,
            assignments |-> <<>>]),
      Dict([courses |-> <<Course("BSD 1323", 60, 40)>>,
            carry_marks |-> <<>>,
            assignments |-> <<Assignment("Essay", "BSD 1323", 230, "pending")>>]),
      NoneArg,
      ListArg({"carry_marks", "assignments"}) }

Next ==
    \/ \E cd \in CourseInputs : add_course(cd)
    \/ \E i \in Indexes, cd \in CourseInputs : update_course(i, cd)
    \/ \E i \in Indexes : delete_course(i)
    \/ \E cd \in CarryInputs : add_carry_mark(cd)
    \/ \E i \in Indexes, cd \in CarryInputs : update_carry_mark(i, cd)
    \/ \E i \in Indexes : delete_carry_mark(i)
    \/ \E a \in AssignmentInputs : add_assignment(a)
    \/ \E i \in Indexes, st \in Statuses : update_assignment_status(i, st)
    \/ \E i \in Indexes : delete_assignment(i)
    \/ \E fe \in ExamInputs : add_final_exam(fe)
    \/ load_sample_data
    \/ \E d \in ImportInputs : import_data_from_dict(d)
    \/ Tick

Spec == Init /\ [][Next]_vars

(***************************************************************************)
(* Properties of the record store                                          *)
(***************************************************************************)
Range(s) == { s[i] : i \in 1 .. Len(s) }
CourseCodes == { c.code : c \in Range(courses) }

\* The last operation was op, and it took effect (or returned True).
Done(op) == last.op = op /\ last.ret
\* This step is a call of op.
Calls(op) == nops' = nops + 1 /\ last'.op = op /\ now' = now

\* C1: after delete_course(index) with a valid index, no carry mark, assignment
\* or final-exam record has the course_code of the deleted course.
C1_DeleteCascades ==
    Done("delete_course") =>
        \A r \in Range(carry_marks) \cup Range(assignments) \cup Range(final_exams) :
            Get(r, "course_code") # last.arg.code

\* A course with sample marks, a sample assignment and a final-exam record was
\* deleted, and its records went with it.
C1_Witness ==
    /\ Done("delete_course") /\ last.arg.code = "BSD 1323"
    /\ sample_data_loaded
    /\ Len(carry_marks) = 2 /\ Len(assignments) = 4 /\ final_exams = <<>>
    /\ Len(courses) = 6

\* C2: a failed import_data_from_dict leaves courses, carry marks and
\* assignments exactly as they were before the call.
C2_FailedImportChangesNothing ==
    [][ (Calls("import_data_from_dict") /\ ~last'.ret) =>
            (courses' = courses /\ carry_marks' = carry_marks
             /\ assignments' = assignments) ]_vars

\* An import failed in a session that had marks and assignments to lose.
C2_Witness ==
    /\ last.op = "import_data_from_dict" /\ ~last.ret
    /\ carry_marks # <<>> /\ assignments # <<>>

\* C3: update_carry_mark keeps the date_added the record was created with.
C3_DateAddedImmutable ==
    [][ \A i \in Indexes :
          ( /\ Calls("update_carry_mark") /\ last'.ret /\ last'.idx = i
            /\ Has(carry_marks[i + 1], "date_added") )
          => ( /\ Has(carry_marks'[i + 1], "date_added")
               /\ carry_marks'[i + 1].date_added = carry_marks[i + 1].date_added ) ]_vars

\* The record the last add_carry_mark or update_carry_mark stored.
Stored == IF last.op = "add_carry_mark" THEN carry_marks[Len(carry_marks)]
          ELSE carry_marks[last.idx + 1]
StoredMark == last.op \in {"add_carry_mark", "update_carry_mark"} /\ last.ret

\* final_contribution == percentage/100 * weight_percentage, when the record
\* was given a weight and has a percentage.
ContributionDerived(r, given) ==
    (Has(given, "weight_percentage") /\ Has(r, "percentage")) =>
        /\ Has(r, "final_contribution")
        /\ r.final_contribution = Mul(Div(r.percentage, Hundred), given.weight_percentage)

C5_CourseCodeIsForeignKey ==
    \A r \in Range(carry_marks) \cup Range(assignments) :
        Get(r, "course_code") \in CourseCodes

(***************************************************************************)
(* Arithmetic with NaN and infinities (pandas and numpy)                   *)
(***************************************************************************)
Sign(v) == IF v.n > 0 THEN 1 ELSE IF v.n < 0 THEN -1 ELSE 0
Inf(sign) == IF sign > 0 THEN PosInf ELSE NegInf
\* pd.isna: NaN and None
isna(v) == v.k \in {"nan", "none"}

PAdd(a, b) ==
    CASE IsNaN(a) \/ IsNaN(b) -> NaN
      [] a.k = "inf" /\ b.k = "inf" -> IF a.n = b.n THEN a ELSE NaN
      [] a.k = "inf" -> a
      [] b.k = "inf" -> b
      [] OTHER -> Add(a, b)

PMul(a, b) ==
    CASE IsNaN(a) \/ IsNaN(b) -> NaN
      [] a.k = "inf" \/ b.k = "inf" ->
            IF Sign(a) * Sign(b) = 0 THEN NaN ELSE Inf(Sign(a) * Sign(b))
      [] OTHER -> Mul(a, b)

\* Division of columns and of numpy numbers: x/0 is +-inf, 0/0 is NaN.
PDiv(a, b) ==
    CASE IsNaN(a) \/ IsNaN(b) -> NaN
      [] a.k = "inf" /\ b.k = "inf" -> NaN
      [] a.k = "inf" -> Inf(Sign(a) * (IF Sign(b) < 0 THEN -1 ELSE 1))
      [] b.k = "inf" -> Zero
      [] b.n = 0 -> IF a.n = 0 THEN NaN ELSE Inf(Sign(a))
      [] OTHER -> Div(a, b)

\* a < b for numbers and infinities; every comparison with NaN is false.
PLt(a, b) ==
    CASE IsNaN(a) \/ IsNaN(b) -> FALSE
      [] a.k = "inf" /\ b.k = "inf" -> a.n < b.n
      [] a.k = "inf" -> a.n < 0
      [] b.k = "inf" -> b.n > 0
      [] OTHER -> Lt(a, b)
PGe(a, b) == ~IsNaN(a) /\ ~IsNaN(b) /\ ~PLt(a, b)
PGt(a, b) == PLt(b, a)

\* .fillna(0)
fillna0(v) == IF isna(v) THEN Zero ELSE v

RECURSIVE SumAll(_)
SumAll(s) == IF s = <<>> THEN Zero ELSE PAdd(Head(s), SumAll(Tail(s)))

NotNaN(v) == ~isna(v)
\* Series.sum() and Series.mean(): missing values are skipped; the mean of
\* nothing is NaN.
sum(s) == SumAll(SelectSeq(s, NotNaN))
mean(s) ==
    LET vals == SelectSeq(s, NotNaN)
    IN  IF vals = <<>> THEN NaN ELSE PDiv(SumAll(vals), Num(Len(vals)))

(***************************************************************************)
(* Data frames                                                             *)
(***************************************************************************)
\* pd.DataFrame(records): the columns are the keys any record has; a record
\* without a key has a missing cell (NaN) in that column.
DataFrame(records) ==
    [cols |-> UNION { DOMAIN records[i] : i \in 1 .. Len(records) },
     rows |-> records]

empty(df) == df.rows = <<>>
\* The frame an analyzer's exception stands for.
Raised == [cols |-> {"!exception"}, rows |-> <<>>]
\* The number an analyzer's exception stands for.
RaisedNum == [k |-> "raise", n |-> 0, d |-> 1]

\* The numeric cell of a row: NaN when the record had no such key.
Cell(r, c) == IF Has(r, c) THEN r[c] ELSE NaN
\* df[c] as a sequence of numbers.
Column(rows, c) == [i \in 1 .. Len(rows) |-> Cell(rows[i], c)]

\* df[df[c] == v]: the rows whose cell c equals v (a missing cell equals nothing).
Where(rows, c, v) ==
    LET Match(r) == Has(r, c) /\ r[c] = v
    IN  SelectSeq(rows, Match)

(***************************************************************************)
(* Grade calculator                                                        *)
(***************************************************************************)
\* A frame without the column it subscripts raises KeyError (RaisedNum).
calculate_carry_percentage(course_code, carry_marks_df) ==
    IF empty(carry_marks_df) THEN Zero
    ELSE IF "course_code" \notin carry_marks_df.cols THEN RaisedNum
    ELSE LET course_marks == Where(carry_marks_df.rows, "course_code", course_code)
         IN  IF course_marks = <<>> THEN Zero
             ELSE IF "percentage" \in carry_marks_df.cols
             THEN mean(Column(course_marks, "percentage"))
             ELSE IF ~({"earned", "max_possible"} \subseteq carry_marks_df.cols)
                  THEN RaisedNum
                  ELSE LET total_earned == sum(Column(course_marks, "earned"))
                           total_max == sum(Column(course_marks, "max_possible"))
                       IN  IF total_max = Zero THEN Zero
                           ELSE PMul(PDiv(total_earned, total_max), Hundred)

\* max(0, min(100, x)) as Python evaluates it.
Clamp(x) == IF Lt(x, Hundred) THEN (IF Gt(x, Zero) THEN x ELSE Zero) ELSE Hundred

\* calculate_final_exam_requirement with the clamp left out.
calculate_final_exam_requirement_unclamped(target_grade, carry_percentage, carry_weight, exam_weight) ==
    IF exam_weight = Zero THEN Zero
    ELSE LET carry_contribution ==
                 Mul(Mul(Div(carry_percentage, Hundred), Div(carry_weight, Hundred)), Hundred)
             required_exam_contribution == Sub(target_grade, carry_contribution)
         IN  Mul(Div(required_exam_contribution, exam_weight), Hundred)

calculate_final_exam_requirement(target_grade, carry_percentage, carry_weight, exam_weight) ==
    IF exam_weight = Zero THEN Zero
    ELSE LET carry_contribution ==
                 Mul(Mul(Div(carry_percentage, Hundred), Div(carry_weight, Hundred)), Hundred)
             required_exam_contribution == Sub(target_grade, carry_contribution)
             required_exam_percentage ==
                 Mul(Div(required_exam_contribution, exam_weight), Hundred)
         IN  Clamp(required_exam_percentage)

\* A frame without the column it subscripts raises KeyError (RaisedNum); the
\* course's carry_weight is that of the first course with the code.
calculate_current_grade(course_code, carry_marks_df, courses_df) ==
    IF "code" \notin courses_df.cols THEN RaisedNum
    ELSE LET course_info == Where(courses_df.rows, "code", course_code)
         IN  IF course_info = <<>> THEN Zero
             ELSE IF "course_code" \notin carry_marks_df.cols THEN RaisedNum
             ELSE LET course_marks == Where(carry_marks_df.rows, "course_code", course_code)
                      carry_weight == Num(course_info[1].carry_weight)
                      total_earned == sum(Column(course_marks, "earned"))
                      total_max == sum(Column(course_marks, "max_possible"))
                      avg_percentage ==
                          IF "percentage" \in carry_marks_df.cols
                          THEN mean(Column(course_marks, "percentage"))
                          ELSE IF PGt(total_max, Zero)
                               THEN PMul(PDiv(total_earned, total_max), Hundred)
                               ELSE Zero
                  IN  IF course_marks = <<>> THEN Zero
                      ELSE IF "final_contribution" \in carry_marks_df.cols
                      THEN sum(Column(course_marks, "final_contribution"))
                      ELSE IF "percentage" \notin carry_marks_df.cols
                              /\ ~({"earned", "max_possible"} \subseteq carry_marks_df.cols)
                      THEN RaisedNum
                      ELSE PMul(PDiv(avg_percentage, Hundred), carry_weight)

\* The table with A+ worth more than A.
grade_points_with_a_plus(letter) ==
    CASE letter = "A+" -> Rat(43, 10)
      [] letter = "A" -> Num(4)
      [] letter = "A-" -> Rat(37, 10)
      [] letter = "B+" -> Rat(33, 10)
      [] letter = "B" -> Num(3)
      [] letter = "B-" -> Rat(27, 10)
      [] letter = "C+" -> Rat(23, 10)
      [] letter = "C" -> Num(2)
      [] letter = "C-" -> Rat(17, 10)
      [] OTHER -> Zero

\* grade_points.get(letter, 0.0)
grade_points(letter) ==
    CASE letter \in {"A+", "A"} -> Num(4)
      [] letter = "A-" -> Rat(37, 10)
      [] letter = "B+" -> Rat(33, 10)
      [] letter = "B" -> Num(3)
      [] letter = "B-" -> Rat(27, 10)
      [] letter = "C+" -> Rat(23, 10)
      [] letter = "C" -> Num(2)
      [] letter = "C-" -> Rat(17, 10)
      [] OTHER -> Zero

\* total_points and total_weight after the loop over the rows.
RECURSIVE GpaTotals(_)
GpaTotals(rows) ==
    IF rows = <<>> THEN [total_points |-> Zero, total_weight |-> Zero]
    ELSE LET before == GpaTotals(SubSeq(rows, 1, Len(rows) - 1))
             row == rows[Len(rows)]
             points == grade_points(row["Letter Grade"])
             weight == row["Carry Weight"]
         IN  [total_points |-> PAdd(before.total_points, PMul(points, weight)),
              total_weight |-> PAdd(before.total_weight, weight)]

\* 'Letter Grade' in row asks for the column; a frame without both columns
\* adds nothing to the totals.
calculate_weighted_gpa(course_stats_df) ==
    IF empty(course_stats_df) THEN Zero
    ELSE LET totals == IF {"Letter Grade", "Carry Weight"} \subseteq course_stats_df.cols
                       THEN GpaTotals([i \in 1 .. Len(course_stats_df.rows) |->
                                [c \in {"Letter Grade", "Carry Weight"} |->
                                    IF c = "Letter Grade"
                                    THEN Get(course_stats_df.rows[i], c)
                                    ELSE Cell(course_stats_df.rows[i], c)]])
                       ELSE GpaTotals(<<>>)
         IN  IF PGt(totals.total_weight, Zero)
             THEN PDiv(totals.total_points, totals.total_weight)
             ELSE Zero

\* pd.isna is false of a str, and str < 0 raises TypeError.
get_grade_letter(percentage) ==
    IF percentage.k = "str" THEN "TypeError"
    ELSE IF isna(percentage) \/ PLt(percentage, Zero) THEN "F"
    ELSE IF PGe(percentage, Num(90)) THEN "A+"
    ELSE IF PGe(percentage, Num(85)) THEN "A"
    ELSE IF PGe(percentage, Num(80)) THEN "A-"
    ELSE IF PGe(percentage, Num(75)) THEN "B+"
    ELSE IF PGe(percentage, Num(70)) THEN "B"
    ELSE IF PGe(percentage, Num(65)) THEN "B-"
    ELSE IF PGe(percentage, Num(60)) THEN "C+"
    ELSE IF PGe(percentage, Num(55)) THEN "C"
    ELSE IF PGe(percentage, Num(50)) THEN "C-"
    ELSE "F"

(***************************************************************************)
(* Completion and workload                                                 *)
(***************************************************************************)
\* The completion rate with a count of the calls so far in its total.
calculate_completion_rate_counting_calls(assignments_df) ==
    IF empty(assignments_df) THEN Zero
    ELSE IF "status" \notin assignments_df.cols THEN RaisedNum
    ELSE LET completed == Len(Where(assignments_df.rows, "status", "completed"))
             total == Len(assignments_df.rows) + nops
         IN  IF total > 0 THEN Mul(Div(Num(completed), Num(total)), Hundred) ELSE Zero

\* The completion rate with everything that is not pending counted as completed.
calculate_completion_rate_not_pending(assignments_df) ==
    IF empty(assignments_df) THEN Zero
    ELSE IF "status" \notin assignments_df.cols THEN RaisedNum
    ELSE LET pending == Len(Where(assignments_df.rows, "status", "pending"))
             total == Len(assignments_df.rows)
         IN  IF total > 0 THEN Mul(Div(Num(total - pending), Num(total)), Hundred) ELSE Zero

calculate_completion_rate(assignments_df) ==
    IF empty(assignments_df) THEN Zero
    ELSE IF "status" \notin assignments_df.cols THEN RaisedNum
    ELSE LET completed == Len(Where(assignments_df.rows, "status", "completed"))
             total == Len(assignments_df.rows)
         IN  IF total > 0 THEN Mul(Div(Num(completed), Num(total)), Hundred) ELSE Zero

\* The dict an analyzer's exception stands for.
RaisedDict == [raised |-> "KeyError"]

\* The levels with "at least" in place of "more than".
load_level_inclusive(count, total_assignments) ==
    IF 10 * count >= 3 * total_assignments THEN "High"
    ELSE IF 100 * count >= 15 * total_assignments THEN "Medium"
    ELSE "Low"

\* 'High' if count > total * 0.3 else 'Medium' if count > total * 0.15 else
\* 'Low', the products taken exactly.
load_level(count, total_assignments) ==
    IF 10 * count > 3 * total_assignments THEN "High"
    ELSE IF 100 * count > 15 * total_assignments THEN "Medium"
    ELSE "Low"

\* groupby('course_code').size() leaves out the rows without a course_code;
\* len(assignments_df) counts them.
calculate_workload_balance(assignments_df) ==
    IF empty(assignments_df) THEN <<>>
    ELSE IF "course_code" \notin assignments_df.cols THEN RaisedDict
    ELSE LET rows == assignments_df.rows
             course_workload ==
                 [course \in { rows[i].course_code :
                                 i \in { j \in 1 .. Len(rows) : Has(rows[j], "course_code") } } |->
                     Len(Where(rows, "course_code", course))]
             total_assignments == Len(rows)
         IN  [course \in DOMAIN course_workload |->
                 [assignments |-> course_workload[course],
                  percentage |-> Mul(Div(Num(course_workload[course]),
                                         Num(total_assignments)), Hundred),
                  load_level |-> load_level(course_workload[course], total_assignments)]]

(***************************************************************************)
(* Date columns and sorting                                                *)
(***************************************************************************)
\* A parsed date (a Timestamp at midnight of the day) and the missing date NaT.
Ts(day) == [fmt |-> "ts", day |-> day]
NaT == [fmt |-> "nat", day |-> 0]

\* pd.to_datetime of one cell: a %Y-%m-%d string parses, a missing cell is
\* NaT; the caller deals with strings that do not parse.
to_datetime(r, c) ==
    IF ~Has(r, c) THEN NaT
    ELSE IF r[c].fmt \in {"ymd", "ts"} THEN Ts(r[c].day)
    ELSE NaT

\* Whether pd.to_datetime(df[c]) (errors='raise') raises: some string does not parse.
Unparseable(rows, c) == \E i \in 1 .. Len(rows) : Has(rows[i], c) /\ rows[i][c].fmt = "bad"

\* df[c] = pd.to_datetime(df[c])
ToDatetimeColumn(rows, c) == [i \in 1 .. Len(rows) |-> Put(rows[i], c, to_datetime(rows[i], c))]

\* The key sort_values orders a cell by: a day or a whole number, or missing.
SortKey(r, c) ==
    IF ~Has(r, c) THEN [na |-> TRUE, v |-> 0]
    ELSE IF "fmt" \in DOMAIN r[c]
         THEN [na |-> r[c].fmt # "ts", v |-> r[c].day]
         ELSE [na |-> r[c].k # "num", v |-> r[c].n]

\* a sorts no later than b: missing keys go last.
KeyLe(a, b) == b.na \/ (~a.na /\ a.v <= b.v)

\* r put into the sorted rows after every row that sorts no later than it.
RECURSIVE InsertRow(_, _, _)
InsertRow(sorted, r, c) ==
    IF sorted = <<>> THEN <<r>>
    ELSE IF KeyLe(SortKey(Head(sorted), c), SortKey(r, c))
         THEN <<Head(sorted)>> \o InsertRow(Tail(sorted), r, c)
         ELSE <<r>> \o sorted

\* sort_values leaving the rows in the order they came in.
sort_values_as_given(rows, c) == rows

\* df.sort_values(c): ascending, missing last, equal keys in their old order
\* (what numpy's sort does for the short columns here).
RECURSIVE sort_values(_, _)
sort_values(rows, c) ==
    IF rows = <<>> THEN <<>>
    ELSE InsertRow(sort_values(SubSeq(rows, 1, Len(rows) - 1), c), rows[Len(rows)], c)

\* The whole days of a span of half days (timedelta.days rounds down).
DaysOf(halfdays) == halfdays \div 2
\* The clock reading of midnight of a day.
Midnight(day) == 2 * day

(***************************************************************************)
(* Analyzers that read the clock                                           *)
(***************************************************************************)
\* datetime.strptime(due_date_str, "%Y-%m-%d") - datetime.now(), in days; 0
\* when the string does not parse.
calculate_days_until_due(due_date_str) ==
    IF due_date_str.fmt = "ymd"
    THEN DaysOf(Midnight(due_date_str.day) - now)
    ELSE 0

\* The rows of pending with due_date parsed and days_remaining added.
WithDaysRemaining(pending) ==
    [i \in 1 .. Len(pending) |->
        LET due == to_datetime(pending[i], "due_date")
        IN  Put(Put(pending[i], "due_date", due), "days_remaining",
                IF due.fmt = "ts" THEN Num(DaysOf(Midnight(due.day) - now)) ELSE NaN)]

\* calculate_time_to_deadline keeping whatever is not completed.
calculate_time_to_deadline_not_completed(assignments_df) ==
    IF empty(assignments_df) THEN [ret |-> DataFrame(<<>>), df |-> assignments_df]
    ELSE IF "status" \notin assignments_df.cols THEN [ret |-> Raised, df |-> assignments_df]
    ELSE LET pending_assignments ==
                 SelectSeq(assignments_df.rows,
                           LAMBDA r : Has(r, "status") /\ r.status # "completed")
         IN  IF pending_assignments = <<>>
             THEN [ret |-> DataFrame(<<>>), df |-> assignments_df]
             ELSE IF "due_date" \notin assignments_df.cols
                     \/ Unparseable(pending_assignments, "due_date")
             THEN [ret |-> Raised, df |-> assignments_df]
             ELSE [ret |-> [cols |-> assignments_df.cols \cup {"days_remaining"},
                            rows |-> sort_values(WithDaysRemaining(pending_assignments),
                                                 "days_remaining")],
                   df |-> assignments_df]

\* Returns the result frame; df is the argument as the call leaves it.
calculate_time_to_deadline(assignments_df) ==
    IF empty(assignments_df) THEN [ret |-> DataFrame(<<>>), df |-> assignments_df]
    ELSE IF "status" \notin assignments_df.cols THEN [ret |-> Raised, df |-> assignments_df]
    ELSE LET pending_assignments == Where(assignments_df.rows, "status", "pending")
         IN  IF pending_assignments = <<>>
             THEN [ret |-> DataFrame(<<>>), df |-> assignments_df]
             ELSE IF "due_date" \notin assignments_df.cols
                     \/ Unparseable(pending_assignments, "due_date")
             THEN [ret |-> Raised, df |-> assignments_df]
             ELSE [ret |-> [cols |-> assignments_df.cols \cup {"days_remaining"},
                            rows |-> sort_values(WithDaysRemaining(pending_assignments),
                                                 "days_remaining")],
                   df |-> assignments_df]

(***************************************************************************)
(* Weekly workload                                                         *)
(***************************************************************************)
\* The Monday-to-Sunday week a day falls in (day 1, 2025-01-01, is a Wednesday).
WeekOf(day) == (day + 1) \div 7

RECURSIVE SortedSeq(_)
SortedSeq(S) ==
    IF S = {} THEN <<>>
    ELSE LET m == CHOOSE x \in S : \A y \in S : x <= y
         IN  <<m>> \o SortedSeq(S \ {m})

\* The copy of the frame with due_date parsed and the week column added.
WithWeek(rows) ==
    [i \in 1 .. Len(rows) |->
        LET due == to_datetime(rows[i], "due_date")
        IN  Put(Put(rows[i], "due_date", due), "week",
                IF due.fmt = "ts" THEN Ts(WeekOf(due.day)) ELSE NaT)]

\* groupby('week').agg(title count, pending count).reset_index(): one row a
\* week, in week order; rows without a week are left out.
WeeklySummary(rows) ==
    LET weeks == { rows[i].week.day : i \in { j \in 1 .. Len(rows) : rows[j].week.fmt = "ts" } }
        InWeek(w) == { i \in 1 .. Len(rows) : rows[i].week = Ts(w) }
        ordered == SortedSeq(weeks)
    IN  [cols |-> {"week", "total_assignments", "pending_assignments"},
         rows |-> [n \in 1 .. Len(ordered) |->
                     [week |-> ordered[n],
                      total_assignments |->
                          Cardinality({ i \in InWeek(ordered[n]) : Has(rows[i], "title") }),
                      pending_assignments |->
                          Cardinality({ i \in InWeek(ordered[n]) :
                                          Has(rows[i], "status") /\ rows[i].status = "pending" })]]]

\* get_weekly_workload without the .copy(): the caller's frame gets the parsed
\* due_date and the week column.
get_weekly_workload_in_place(assignments_df) ==
    IF empty(assignments_df) THEN [ret |-> DataFrame(<<>>), df |-> assignments_df]
    ELSE IF "due_date" \notin assignments_df.cols
            \/ Unparseable(assignments_df.rows, "due_date")
    THEN [ret |-> Raised, df |-> assignments_df]
    ELSE LET local == [cols |-> assignments_df.cols \cup {"week"},
                       rows |-> WithWeek(assignments_df.rows)]
         IN  IF ~({"title", "status"} \subseteq assignments_df.cols)
             THEN [ret |-> Raised, df |-> local]
             ELSE [ret |-> WeeklySummary(local.rows), df |-> local]

\* Works on a copy, so df, the argument as the call leaves it, is the argument.
get_weekly_workload(assignments_df) ==
    IF empty(assignments_df) THEN [ret |-> DataFrame(<<>>), df |-> assignments_df]
    ELSE IF "due_date" \notin assignments_df.cols
            \/ Unparseable(assignments_df.rows, "due_date")
    THEN [ret |-> Raised, df |-> assignments_df]
    ELSE LET local == [cols |-> assignments_df.cols \cup {"week"},
                       rows |-> WithWeek(assignments_df.rows)]
         IN  IF ~({"title", "status"} \subseteq assignments_df.cols)
             THEN [ret |-> Raised, df |-> assignments_df]
             ELSE [ret |-> WeeklySummary(local.rows), df |-> assignments_df]

(***************************************************************************)
(* Trend                                                                   *)
(***************************************************************************)
\* df['percentage'] = (df['earned'] / df['max_possible'] * 100).fillna(0)
DerivePercentage(rows) ==
    [i \in 1 .. Len(rows) |->
        Put(rows[i], "percentage",
            fillna0(PMul(PDiv(Cell(rows[i], "earned"), Cell(rows[i], "max_possible")),
                         Hundred)))]

RECURSIVE SumXY(_, _)
\* The sum of x * y over y with x counted up from x0.
SumXY(y, x0) ==
    IF y = <<>> THEN Zero
    ELSE Add(Mul(Num(x0), Head(y)), SumXY(Tail(y), x0 + 1))

RECURSIVE SumSq(_)
SumSq(n) == IF n = 0 THEN 0 ELSE (n - 1) * (n - 1) + SumSq(n - 1)

\* np.polyfit(np.arange(len(y)), y, 1)[0] for finite y: the least-squares slope.
Slope(y) ==
    LET n == Len(y)
        sx == (n * (n - 1)) \div 2
    IN  Div(Sub(Mul(Num(n), SumXY(y, 0)), Mul(Num(sx), SumAll(y))),
            Num(n * SumSq(n) - sx * sx))

\* The labels with "at least 2" in place of "more than 2".
TrendOfInclusive(slope) ==
    IF Ge(slope, Num(2)) THEN "Improving"
    ELSE IF Le(slope, Num(-2)) THEN "Declining"
    ELSE "Stable"

TrendOf(slope) ==
    IF Gt(slope, Num(2)) THEN "Improving"
    ELSE IF Lt(slope, Num(-2)) THEN "Declining"
    ELSE "Stable"

\* The label for percentages y in date order. With a NaN or infinite value the
\* least-squares routine either fails to converge (an exception) or gives a
\* NaN slope, which compares false both ways: lapack says which.
TrendLabel(y, lapack) ==
    IF \E i \in 1 .. Len(y) : ~IsNum(y[i])
    THEN IF lapack = "raises" THEN "LinAlgError" ELSE "Stable"
    ELSE TrendOf(Slope(y))

\* Returns the label (or the exception's name); df is the argument as the call
\* leaves it.
get_performance_trend(carry_marks_df, lapack) ==
    IF empty(carry_marks_df) \/ Len(carry_marks_df.rows) < 2
    THEN [ret |-> "Insufficient data", df |-> carry_marks_df]
    ELSE IF "percentage" \notin carry_marks_df.cols
            /\ ~({"earned", "max_possible"} \subseteq carry_marks_df.cols)
    THEN [ret |-> "KeyError", df |-> carry_marks_df]
    ELSE LET withpct == IF "percentage" \notin carry_marks_df.cols
                        THEN DerivePercentage(carry_marks_df.rows)
                        ELSE carry_marks_df.rows
         IN  IF "date_added" \notin carry_marks_df.cols
             THEN [ret |-> "No date information", df |-> carry_marks_df]
             ELSE IF Unparseable(withpct, "date_added")
             THEN [ret |-> "ValueError", df |-> carry_marks_df]
             ELSE LET sorted == sort_values(ToDatetimeColumn(withpct, "date_added"),
                                            "date_added")
                  IN  [ret |-> TrendLabel(Column(sorted, "percentage"), lapack),
                       df |-> carry_marks_df]

(***************************************************************************)
(* The frames the store hands to the analyzers                             *)
(***************************************************************************)
\* pd.to_numeric(errors='coerce'): what is not a number becomes NaN.
to_numeric(v) == IF v.k \in {"num", "inf"} THEN v ELSE NaN

NumericColumns == {"earned", "max_possible", "weight_percentage", "final_contribution"}

\* One row of get_carry_marks_df: the numeric columns the frame has are
\* coerced and filled with 0, the percentage is coerced and filled (or derived
\* when the frame has no such column), and date_added is today when the frame
\* has no such column.
NormalMark(r, cols) ==
    LET numeric == NumericColumns \cap cols
        coerced == [c \in (DOMAIN r) \cup numeric |->
                       IF c \in numeric THEN fillna0(to_numeric(Cell(r, c))) ELSE r[c]]
        withpct == Put(coerced, "percentage",
                       IF "percentage" \notin cols
                       THEN fillna0(PMul(PDiv(coerced.earned, coerced.max_possible), Hundred))
                       ELSE fillna0(to_numeric(Cell(r, "percentage"))))
    IN  IF "date_added" \notin cols
        THEN Put(withpct, "date_added", strftime(now))
        ELSE withpct

get_carry_marks_df(records) ==
    IF records # <<>>
    THEN LET df == DataFrame(records)
         IN  IF "percentage" \notin df.cols
                /\ ~({"earned", "max_possible"} \subseteq df.cols)
             THEN Raised
             ELSE [cols |-> df.cols \cup {"percentage", "date_added"},
                   rows |-> [i \in 1 .. Len(records) |-> NormalMark(records[i], df.cols)]]
    ELSE [cols |-> {"course_code", "element_type", "element_name", "earned",
                    "max_possible", "weight_percentage", "final_contribution",
                    "percentage", "date_added"},
          rows |-> <<>>]

\* One row of get_assignments_df: due_date parsed with errors='coerce' and
\* written back as %Y-%m-%d; what does not parse becomes a missing cell.
NormalAssignment(r) ==
    IF Has(r, "due_date") /\ r.due_date.fmt # "ymd"
    THEN [c \in (DOMAIN r) \ {"due_date"} |-> r[c]]
    ELSE r

get_assignments_df(records) ==
    IF records # <<>>
    THEN LET df == DataFrame(records)
         IN  [cols |-> df.cols,
              rows |-> [i \in 1 .. Len(records) |-> NormalAssignment(records[i])]]
    ELSE [cols |-> {"title", "course_code", "type", "due_date", "status", "description"},
          rows |-> <<>>]

get_courses_df == DataFrame(courses)

\* (due_date - today).days of one row of the insight pass; the row is skipped
\* (the except branch) when it has no date.
DaysDiff(r) == to_datetime(r, "due_date").day - DaysOf(now)

PendingDated(rows) ==
    SelectSeq(rows, LAMBDA r : /\ Has(r, "status") /\ r.status = "pending"
                               /\ to_datetime(r, "due_date").fmt = "ts")

\* The overdue count with "due today" taken as overdue.
overdue_count_through_today(rows) ==
    Len(SelectSeq(PendingDated(rows), LAMBDA r : DaysDiff(r) <= 0))

overdue_count(rows) == Len(SelectSeq(PendingDated(rows), LAMBDA r : DaysDiff(r) < 0))

upcoming_count(rows) ==
    Len(SelectSeq(PendingDated(rows), LAMBDA r : DaysDiff(r) >= 0 /\ DaysDiff(r) <= 7))

\* What analytics_tab shows: average performance (NaN standing for "No
\* data"), assignment completion, the number pending and the insight pass's
\* overdue and upcoming counts.
Overview(carry_marks_df, assignments_df) ==
    [avg_performance |-> IF ~empty(carry_marks_df)
                         THEN mean(Column(carry_marks_df.rows, "percentage"))
                         ELSE NaN,
     completion_rate |-> IF ~empty(assignments_df)
                         THEN calculate_completion_rate(assignments_df)
                         ELSE NaN,
     pending_assignments |-> IF ~empty(assignments_df)
                             THEN Len(Where(assignments_df.rows, "status", "pending"))
                             ELSE 0,
     overdue_count |-> IF ~empty(assignments_df)
                       THEN overdue_count(assignments_df.rows) ELSE 0,
     upcoming_count |-> IF ~empty(assignments_df)
                        THEN upcoming_count(assignments_df.rows) ELSE 0]

\* The summary of the store; an exception of get_carry_marks_df or a frame
\* without a status column raises.
get_course_summary ==
    LET courses_df == get_courses_df
        carry_marks_df == get_carry_marks_df(carry_marks)
        assignments_df == get_assignments_df(assignments)
    IN  IF carry_marks_df = Raised
           \/ (~empty(assignments_df) /\ "status" \notin assignments_df.cols)
        THEN RaisedDict
        ELSE [total_courses |-> Len(courses_df.rows),
              total_assessments |-> Len(carry_marks_df.rows),
              total_assignments |-> Len(assignments_df.rows),
              avg_performance |-> IF ~empty(carry_marks_df)
                                  THEN mean(Column(carry_marks_df.rows, "percentage"))
                                  ELSE Zero,
              completion_rate |->
                  IF ~empty(assignments_df)
                  THEN Mul(Div(Num(Len(Where(assignments_df.rows, "status", "completed"))),
                               Num(Len(assignments_df.rows))), Hundred)
                  ELSE Zero]

(***************************************************************************)
(* Analyzer calls on a snapshot of the store                               *)
(***************************************************************************)
\* The calls and clock ticks one run makes, and the records a snapshot holds.
MaxCalls == 3
MaxRecords == 2

SeqsUpTo(S, n) == UNION { [1 .. k -> S] : k \in 0 .. n }

\* Marks as a snapshot may hold them: with and without percentage and
\* date_added, with more earned than possible, with nothing possible.
MarkPool ==
    { [course_code |-> "BSD 1323", earned |-> Num(18), max_possible |-> Num(20)],
      [course_code |-> "BSD 1323", earned |-> Num(120), max_possible |-> Num(100),
       date_added |-> DateStr(220)],
      [course_code |-> "BSD 2143", earned |-> Num(5), max_possible |-> Num(10),
       percentage |-> Num(50), date_added |-> DateStr(222)],
      [course_code |-> "BSD 1323", earned |-> Num(5), max_possible |-> Num(0)] }

\* Assignments due today, in two days and next week, and one with a due date
\* that is no date.
AssignmentPool ==
    { Assignment("Essay", "BSD 1323", 224, "pending"),
      Assignment("Lab", "BSD 1323", 226, "pending"),
      Assignment("Quiz", "BSD 2143", 233, "completed"),
      [title |-> "Report", course_code |-> "BSD 2143", due_date |-> BadDate,
       status |-> "pending"] }

InitAnalyzers ==
    /\ courses = get_default_courses
    /\ final_exams = <<>>
    /\ sample_data_loaded = FALSE
    /\ carry_marks \in SeqsUpTo(MarkPool, MaxRecords)
    /\ assignments \in SeqsUpTo(AssignmentPool, MaxRecords - Len(carry_marks))
    /\ now = StartNow - 2
    /\ last = Did("init", -9, <<>>, TRUE)
    /\ nops = 0

\* One analyzer call: its arguments, its result and its arguments afterwards.
Call(op, arg, ret, after) ==
    /\ nops < MaxCalls
    /\ nops' = nops + 1
    /\ UNCHANGED <<courses, carry_marks, final_exams, assignments,
                   sample_data_loaded, now>>
    /\ LET again == last.op = op /\ last.arg = arg
       IN  last' = [op |-> op, idx |-> -9, arg |-> arg, ret |-> ret, after |-> after,
                    at |-> now, again |-> again,
                    prev |-> IF again THEN [at |-> last.at, ret |-> last.ret] ELSE NoPrev]

\* The clock goes from noon to midnight to the next noon.
TickAnalyzers ==
    /\ nops < MaxCalls
    /\ now < StartNow
    /\ nops' = nops + 1
    /\ now' = now + 1
    /\ UNCHANGED <<courses, carry_marks, final_exams, assignments,
                   sample_data_loaded, last>>

\* The frames a caller builds from the store: pd.DataFrame of the records, or
\* the store's own get_..._df.
MarkFrames == { DataFrame(carry_marks), get_carry_marks_df(carry_marks) } \ {Raised}
AssignmentFrames == { DataFrame(assignments), get_assignments_df(assignments) }

CodeInputs == {"BSD 1323", "BSD 2143"}

GradeInputs ==
    { Num(100), Num(90), Rat(89999, 1000), Num(85), Rat(84999, 1000), Num(80),
      Rat(79999, 1000), Num(75), Rat(74999, 1000), Num(70), Rat(69999, 1000),
      Num(65), Rat(64999, 1000), Num(60), Rat(59999, 1000), Num(55),
      Rat(54999, 1000), Num(50), Rat(49999, 1000), Num(0), Num(-5), Num(120),
      NaN, None, PosInf, Text }

DueInputs == { DateStr(224), DateStr(226), BadDate }
LapackInputs == {"raises", "nan"}

call_calculate_carry_percentage ==
    \E code \in CodeInputs, df \in MarkFrames :
        LET arg == [course_code |-> code, df |-> df]
        IN  Call("calculate_carry_percentage", arg,
                 calculate_carry_percentage(code, df), arg)

call_get_grade_letter ==
    /\ nops < MaxCalls
    /\ \E p \in GradeInputs :
           Call("get_grade_letter", [percentage |-> p], get_grade_letter(p),
                [percentage |-> p])

call_calculate_completion_rate ==
    \E df \in AssignmentFrames :
        Call("calculate_completion_rate", [df |-> df],
             calculate_completion_rate(df), [df |-> df])

call_calculate_days_until_due ==
    /\ nops < MaxCalls
    /\ \E d \in DueInputs :
           Call("calculate_days_until_due", [due_date_str |-> d],
                calculate_days_until_due(d), [due_date_str |-> d])

call_calculate_time_to_deadline ==
    \E df \in AssignmentFrames :
        LET r == calculate_time_to_deadline(df)
        IN  Call("calculate_time_to_deadline", [df |-> df], r.ret, [df |-> r.df])

call_get_weekly_workload ==
    \E df \in AssignmentFrames :
        LET r == get_weekly_workload(df)
        IN  Call("get_weekly_workload", [df |-> df], r.ret, [df |-> r.df])

call_get_performance_trend ==
    \E df \in MarkFrames, lapack \in LapackInputs :
        LET r == get_performance_trend(df, lapack)
        IN  Call("get_performance_trend", [df |-> df, lapack |-> lapack], r.ret,
                 [df |-> r.df, lapack |-> lapack])

\* The analytics page: it reads the store through get_..._df, works on those
\* frames and writes nothing back.
analytics_tab ==
    /\ get_carry_marks_df(carry_marks) # Raised
    /\ Call("analytics_tab",
            [courses |-> courses, carry_marks |-> carry_marks, assignments |-> assignments],
            IF empty(get_courses_df)
            THEN Overview(DataFrame(<<>>), DataFrame(<<>>))
            ELSE Overview(get_carry_marks_df(carry_marks), get_assignments_df(assignments)),
            [courses |-> courses', carry_marks |-> carry_marks',
             assignments |-> assignments'])

NextAnalyzers ==
    \/ call_calculate_carry_percentage
    \/ call_calculate_completion_rate
    \/ call_calculate_days_until_due
    \/ call_calculate_time_to_deadline
    \/ call_get_weekly_workload
    \/ call_get_performance_trend
    \/ analytics_tab
    \/ TickAnalyzers

SpecAnalyzers == InitAnalyzers /\ [][NextAnalyzers]_vars

(***************************************************************************)
(* Calls of the calculators that take numbers                              *)
(***************************************************************************)
InitCalculators ==
    /\ initialize_session_state
    /\ now = StartNow
    /\ last = Did("init", -9, <<>>, TRUE)
    /\ nops = 0

\* Targets, carry percentages and weights, among them the ones that take the
\* requirement below 0 and above 100.
TargetInputs == { Num(70), Num(50), Num(100), Num(0) }
CarryPercentageInputs == { Num(80), Num(0), Num(100), Num(120) }
CarryWeightInputs == { Num(60), Num(100) }
ExamWeightInputs == { Num(40), Num(0), Num(100), Num(-40) }

call_calculate_final_exam_requirement ==
    /\ nops < MaxCalls
    /\ \E t \in TargetInputs, cp \in CarryPercentageInputs, cw \in CarryWeightInputs,
          ew \in ExamWeightInputs :
           LET arg == [target_grade |-> t, carry_percentage |-> cp, carry_weight |-> cw,
                       exam_weight |-> ew]
           IN  Call("calculate_final_exam_requirement", arg,
                    calculate_final_exam_requirement(t, cp, cw, ew), arg)

\* A row of course statistics as analytics_tab builds it.
StatRow(letter, weight) ==
    [c \in {"Course Code", "Letter Grade", "Carry Weight"} |->
        CASE c = "Course Code" -> "BSD 1323"
          [] c = "Letter Grade" -> letter
          [] OTHER -> Num(weight)]

LetterInputs == {"A+", "A", "A-", "B+", "B", "B-", "C+", "C", "C-", "F", "N/A"}

\* Rows to make frames of several courses from.
StatRowPool == { StatRow("A+", 60), StatRow("B-", 40), StatRow("F", 60), StatRow("A-", 0) }

\* One course with each letter, weighted and unweighted, and up to MaxRecords
\* courses from the pool.
StatFrames ==
    { DataFrame(<<StatRow(l, w)>>) : l \in LetterInputs, w \in {60, 0} }
        \cup { DataFrame(rows) : rows \in SeqsUpTo(StatRowPool, MaxRecords) }

call_calculate_weighted_gpa ==
    /\ nops < MaxCalls
    /\ \E df \in StatFrames :
           Call("calculate_weighted_gpa", [course_stats_df |-> df],
                calculate_weighted_gpa(df), [course_stats_df |-> df])

NextCalculators ==
    \/ call_get_grade_letter
    \/ call_calculate_final_exam_requirement
    \/ call_calculate_weighted_gpa

SpecCalculators == InitCalculators /\ [][NextCalculators]_vars

(***************************************************************************)
(* Properties of the analyzers                                             *)
(***************************************************************************)
\* The analyzers that read the clock.
ClockReaders == {"calculate_days_until_due", "calculate_time_to_deadline", "analytics_tab"}

SnapshotReaders ==
    {"get_weekly_workload", "get_performance_trend", "calculate_time_to_deadline",
     "analytics_tab"}

\* C7: after get_weekly_workload, get_performance_trend,
\* calculate_time_to_deadline or an analytics pass, the frames passed in and the
\* store's courses, carry marks and assignments are what they were before.
C7_InputsUnchanged == last.op \in SnapshotReaders => last.after = last.arg

\* get_weekly_workload summarised the weeks of a frame whose due dates are
\* strings, and the frame still has them as strings and no week column.
C7_Witness ==
    /\ last.op = "get_weekly_workload"
    /\ "week" \in last.ret.cols /\ last.ret.rows # <<>>
    /\ "week" \notin last.after.df.cols
    /\ \E i \in 1 .. Len(last.after.df.rows) :
           /\ Has(last.after.df.rows[i], "due_date")
           /\ last.after.df.rows[i].due_date.fmt = "ymd"

\* C8: get_grade_letter returns A+ from 90, A from 85, A- from 80, B+ from 75,
\* B from 70, B- from 65, C+ from 60, C from 55, C- from 50 and F below, and F
\* for a negative, NaN or non-numeric input.
C8_GradeLadder ==
    last.op = "get_grade_letter" =>
        last.ret =
            LET p == last.arg.percentage
            IN  IF p.k \notin {"num", "inf"} THEN "F"
                ELSE IF PGe(p, Num(90)) THEN "A+"
                ELSE IF PGe(p, Num(85)) THEN "A"
                ELSE IF PGe(p, Num(80)) THEN "A-"
                ELSE IF PGe(p, Num(75)) THEN "B+"
                ELSE IF PGe(p, Num(70)) THEN "B"
                ELSE IF PGe(p, Num(65)) THEN "B-"
                ELSE IF PGe(p, Num(60)) THEN "C+"
                ELSE IF PGe(p, Num(55)) THEN "C"
                ELSE IF PGe(p, Num(50)) THEN "C-"
                ELSE "F"

\* What C9 says of the marks in rows: the mean percentage of the marks of the
\* course that have one; the earned total over the max_possible total when
\* none of them has; 0 when the course has no mark or the max_possible total
\* is 0.
ClaimedCarryPercentage(course_code, rows) ==
    LET matching == SelectSeq(rows, LAMBDA r : Has(r, "course_code")
                                              /\ r.course_code = course_code)
        withpct == SelectSeq(matching, LAMBDA r : Has(r, "percentage"))
        total_earned == sum(Column(matching, "earned"))
        total_max == sum(Column(matching, "max_possible"))
    IN  IF matching = <<>> THEN Zero
        ELSE IF withpct # <<>> THEN mean(Column(withpct, "percentage"))
        ELSE IF total_max = Zero THEN Zero
        ELSE PMul(PDiv(total_earned, total_max), Hundred)

\* C9: calculate_carry_percentage returns the mean percentage of the course's
\* marks, the earned total over the max_possible total when they have no
\* percentage, and 0 when no mark matches or the max_possible total is 0.
C9_CarryPercentage ==
    last.op = "calculate_carry_percentage" =>
        last.ret = ClaimedCarryPercentage(last.arg.course_code, last.arg.df.rows)

\* C10: the percentage add_carry_mark or update_carry_mark derives and stores
\* lies in [0,100].
C10_PercentagesInRange ==
    (StoredMark /\ ~Has(last.arg, "percentage") /\ Has(Stored, "percentage"))
        => (Ge(Stored.percentage, Zero) /\ Le(Stored.percentage, Hundred))

(***************************************************************************)
(* Calls of the analyzers of carry marks                                   *)
(***************************************************************************)
\* Dated marks whose percentages differ by 2, by more and by less, one of them
\* weighted (so with a final_contribution), and a mark with neither percentage
\* nor date.
GradedMarkPool ==
    { [course_code |-> "BSD 1323", earned |-> Num(18), max_possible |-> Num(20),
       percentage |-> Num(90), date_added |-> DateStr(220)],
      [course_code |-> "BSD 2143", earned |-> Num(5), max_possible |-> Num(10),
       weight_percentage |-> Num(10), percentage |-> Num(50),
       final_contribution |-> Num(5), date_added |-> DateStr(222)],
      [course_code |-> "BSD 1323", earned |-> Num(26), max_possible |-> Num(50),
       percentage |-> Num(52), date_added |-> DateStr(224)],
      [course_code |-> "BSD 1323", earned |-> Num(11), max_possible |-> Num(20),
       percentage |-> Num(55), date_added |-> DateStr(226)],
      [course_code |-> "BSD 2143", earned |-> Num(53), max_possible |-> Num(100),
       percentage |-> Num(53), date_added |-> DateStr(228)],
      [course_code |-> "BSD 1323", earned |-> Num(18), max_possible |-> Num(20)] }

\* Four marks of 60, 65, 70 and 75 percent on four days, a week apart.
FourMarks ==
    [i \in 1 .. 4 |->
        [course_code |-> "BSD 1323", earned |-> Num(55 + 5 * i), max_possible |-> Hundred,
         percentage |-> Num(55 + 5 * i), date_added |-> DateStr(190 + 7 * i)]]

\* The courses of a new session, and of a session whose courses were all deleted.
CoursePool == { get_default_courses, <<>> }

InitMarks ==
    /\ courses \in CoursePool
    /\ carry_marks \in SeqsUpTo(GradedMarkPool, MaxRecords) \cup {FourMarks}
    /\ final_exams = <<>>
    /\ assignments = <<>>
    /\ sample_data_loaded = FALSE
    /\ now = StartNow
    /\ last = Did("init", -9, <<>>, TRUE)
    /\ nops = 0

GradeCodeInputs == CodeInputs \cup {"XYZ 9999"}

call_calculate_current_grade ==
    \E code \in GradeCodeInputs, df \in MarkFrames :
        LET arg == [course_code |-> code, carry_marks_df |-> df, courses_df |-> get_courses_df]
        IN  Call("calculate_current_grade", arg,
                 calculate_current_grade(code, df, get_courses_df), arg)

NextMarks ==
    \/ call_get_performance_trend
    \/ call_calculate_current_grade

SpecMarks == InitMarks /\ [][NextMarks]_vars

\* What C11 says of the marks and courses in the rows: 0 when no course has
\* the code or the course has no mark; the final_contribution total of the
\* course's marks that have one; otherwise the course's mean percentage (as
\* C9 has it) over 100 times the course's carry_weight.
ClaimedCurrentGrade(course_code, mark_rows, course_rows) ==
    LET course_info == SelectSeq(course_rows, LAMBDA c : Has(c, "code") /\ c.code = course_code)
        matching == SelectSeq(mark_rows, LAMBDA r : Has(r, "course_code")
                                                   /\ r.course_code = course_code)
        contributing == SelectSeq(matching, LAMBDA r : Has(r, "final_contribution"))
    IN  IF course_info = <<>> \/ matching = <<>> THEN Zero
        ELSE IF contributing # <<>> THEN sum(Column(contributing, "final_contribution"))
        ELSE PMul(PDiv(ClaimedCarryPercentage(course_code, mark_rows), Hundred),
                  Num(course_info[1].carry_weight))

\* C11: calculate_current_grade returns the final_contribution total of the
\* course's marks when they have that field, otherwise their mean percentage
\* over 100 times the course's carry_weight, and 0 when the course does not
\* exist or has no marks.
C11_CurrentGrade ==
    last.op = "calculate_current_grade" =>
        last.ret = ClaimedCurrentGrade(last.arg.course_code, last.arg.carry_marks_df.rows,
                                       last.arg.courses_df.rows)

\* What C12 says: (target_grade - carry_percentage/100 * carry_weight) /
\* exam_weight * 100, brought into [0,100], and 0 for an exam_weight of 0.
ClaimedRequirement(a) ==
    IF a.exam_weight = Zero THEN Zero
    ELSE LET carried == Div(Mul(a.carry_percentage, a.carry_weight), Hundred)
             required == Div(Mul(Sub(a.target_grade, carried), Hundred), a.exam_weight)
         IN  IF Lt(required, Zero) THEN Zero
             ELSE IF Gt(required, Hundred) THEN Hundred
             ELSE required

\* The example of C12: target 70, carry percentage 80, weights 60 and 40.
RequirementExample ==
    [target_grade |-> Num(70), carry_percentage |-> Num(80), carry_weight |-> Num(60),
     exam_weight |-> Num(40)]

ClaimedPoints ==
    [l \in LetterInputs |->
        CASE l = "A+" -> Num(4) [] l = "A" -> Num(4) [] l = "A-" -> Rat(37, 10)
          [] l = "B+" -> Rat(33, 10) [] l = "B" -> Num(3) [] l = "B-" -> Rat(27, 10)
          [] l = "C+" -> Rat(23, 10) [] l = "C" -> Num(2) [] l = "C-" -> Rat(17, 10)
          [] l = "F" -> Zero [] l = "N/A" -> Zero]

RECURSIVE WeightedPoints(_)
WeightedPoints(rows) ==
    IF rows = <<>> THEN Zero
    ELSE Add(Mul(ClaimedPoints[Head(rows)["Letter Grade"]], Head(rows)["Carry Weight"]),
             WeightedPoints(Tail(rows)))

RECURSIVE Weights(_)
Weights(rows) ==
    IF rows = <<>> THEN Zero ELSE Add(Head(rows)["Carry Weight"], Weights(Tail(rows)))

\* C13: calculate_weighted_gpa returns sum(points*carry_weight) /
\* sum(carry_weight) over the rows, with the letters' points as listed, and 0
\* for no rows or a total weight of 0.
C13_WeightedGpa ==
    last.op = "calculate_weighted_gpa" =>
        LET rows == last.arg.course_stats_df.rows
        IN  last.ret = IF rows = <<>> \/ Weights(rows) = Zero THEN Zero
                       ELSE Div(WeightedPoints(rows), Weights(rows))

\* An A+ course of weight 60 and a B- course of weight 40 gave a GPA of 3.48.
C13_Witness ==
    /\ last.op = "calculate_weighted_gpa"
    /\ last.arg.course_stats_df.rows = <<StatRow("A+", 60), StatRow("B-", 40)>>
    /\ last.ret = Rat(348, 100)

(***************************************************************************)
(* Calls of the analyzers of assignments                                   *)
(***************************************************************************)
\* Assignments of every status, due before and after today, one with a due
\* date that is no date and one with none.
WorkPool ==
    { Assignment("Essay", "BSD 1323", 224, "pending"),
      Assignment("Lab", "BSD 1323", 226, "pending"),
      Assignment("Quiz", "BSD 2143", 233, "completed"),
      Assignment("Slides", "BSD 2143", 223, "in_progress"),
      [title |-> "Report", course_code |-> "BUM 2413", due_date |-> BadDate,
       status |-> "pending"],
      [title |-> "Reading", course_code |-> "BUM 2413", status |-> "pending"] }

\* Twenty assignments: 3 of the first course (15%), 6 of the second (30%), 7
\* of the third and 4 of the fourth.
TwentyAssignments ==
    [i \in 1 .. 20 |->
        Assignment("Task", IF i <= 3 THEN "BSD 1323"
                           ELSE IF i <= 9 THEN "BSD 2143"
                           ELSE IF i <= 16 THEN "BUM 2413"
                           ELSE "BUM 2123",
                   220 + i, IF i % 2 = 0 THEN "completed" ELSE "pending")]

InitAssignments ==
    /\ courses = get_default_courses
    /\ carry_marks = <<>>
    /\ final_exams = <<>>
    /\ assignments \in SeqsUpTo(WorkPool, MaxRecords) \cup {TwentyAssignments}
    /\ sample_data_loaded = FALSE
    /\ now = StartNow
    /\ last = Did("init", -9, <<>>, TRUE)
    /\ nops = 0

call_calculate_workload_balance ==
    \E df \in AssignmentFrames :
        Call("calculate_workload_balance", [df |-> df],
             calculate_workload_balance(df), [df |-> df])

call_get_course_summary ==
    /\ nops < MaxCalls
    /\ LET arg == [courses |-> courses, carry_marks |-> carry_marks,
                   assignments |-> assignments]
       IN  Call("get_course_summary", arg, get_course_summary, arg)

NextAssignments ==
    \/ call_calculate_completion_rate
    \/ call_get_course_summary
    \/ call_calculate_workload_balance
    \/ call_calculate_time_to_deadline
    \/ call_get_weekly_workload

SpecAssignments == InitAssignments /\ [][NextAssignments]_vars

\* What C14 says of the assignments in rows: the completed ones out of all of
\* them, times 100; 0 for none.
ClaimedCompletionRate(rows) ==
    IF rows = <<>> THEN Zero
    ELSE Rat(100 * Cardinality({ i \in 1 .. Len(rows) : Get(rows[i], "status") = "completed" }),
             Len(rows))

\* C14: calculate_completion_rate (and the completion_rate of
\* get_course_summary) is the number of assignments with status completed
\* over the number of assignments, times 100, in_progress and pending counting
\* as not completed, and 0 for no assignments.
C14_CompletionRate ==
    /\ last.op = "calculate_completion_rate" =>
           last.ret = ClaimedCompletionRate(last.arg.df.rows)
    /\ last.op = "get_course_summary" =>
           last.ret.completion_rate = ClaimedCompletionRate(last.arg.assignments)

\* One completed and one in_progress assignment gave a rate of 50.
C14_Witness ==
    /\ last.op = "calculate_completion_rate"
    /\ Len(last.arg.df.rows) = 2
    /\ \E i, j \in 1 .. 2 : /\ last.arg.df.rows[i].status = "completed"
                             /\ last.arg.df.rows[j].status = "in_progress"
    /\ last.ret = Num(50)

\* C15: calculate_workload_balance gives, for each course_code among the
\* assignments, the number of its assignments, its share of all assignments
\* in percent, and the level High for a share above 30, Medium for a share
\* above 15 and at most 30, and Low otherwise.
C15_WorkloadBalance ==
    last.op = "calculate_workload_balance" =>
        LET rows == last.arg.df.rows
            WithCode(c) == { i \in 1 .. Len(rows) : Get(rows[i], "course_code") = c }
            Share(c) == Rat(100 * Cardinality(WithCode(c)), Len(rows))
        IN  /\ DOMAIN last.ret = { rows[i].course_code : i \in 1 .. Len(rows) }
            /\ \A c \in DOMAIN last.ret :
                   /\ last.ret[c].assignments = Cardinality(WithCode(c))
                   /\ last.ret[c].percentage = Share(c)
                   /\ last.ret[c].load_level =
                          IF Gt(Share(c), Num(30)) THEN "High"
                          ELSE IF Gt(Share(c), Num(15)) THEN "Medium"
                          ELSE "Low"

\* Of twenty assignments, the course with 3 (15%) came out Low, the course
\* with 6 (30%) Medium and the course with 7 High.
C15_Witness ==
    /\ last.op = "calculate_workload_balance"
    /\ Len(last.arg.df.rows) = 20
    /\ last.ret["BSD 1323"].percentage = Num(15) /\ last.ret["BSD 1323"].load_level = "Low"
    /\ last.ret["BSD 2143"].percentage = Num(30) /\ last.ret["BSD 2143"].load_level = "Medium"
    /\ last.ret["BUM 2413"].load_level = "High"

\* The pending rows of a frame, and whether their due dates can be read: the
\* frame has the column and no pending row has a string in it that is no date.
PendingRows(df) == SelectSeq(df.rows, LAMBDA r : Get(r, "status") = "pending")
PendingDatesParse(df) ==
    /\ {"status", "due_date"} \subseteq df.cols
    /\ \A i \in 1 .. Len(df.rows) :
           (Get(df.rows[i], "status") = "pending" /\ Has(df.rows[i], "due_date"))
               => df.rows[i].due_date.fmt # "bad"

\* What identifies an assignment in the argument and in the result.
AssignmentKey(r) ==
    <<Get(r, "title"), Get(r, "course_code"), Get(r, "status"),
      IF Has(r, "due_date") /\ r.due_date.fmt \in {"ymd", "ts"} THEN r.due_date.day ELSE -1>>

Occurrences(rows, key) == Cardinality({ i \in 1 .. Len(rows) : AssignmentKey(rows[i]) = key })

\* C16: calculate_time_to_deadline returns exactly the pending assignments,
\* each with days_remaining the whole days from now to its due date, in
\* ascending order of days_remaining (overdue ones first). Stated for frames
\* whose pending due dates can be read.
C16_TimeToDeadline ==
    (last.op = "calculate_time_to_deadline" /\ PendingDatesParse(last.arg.df)) =>
        LET pending == PendingRows(last.arg.df)
            out == last.ret.rows
        IN  /\ last.ret # Raised
            /\ Len(out) = Len(pending)
            /\ \A i \in 1 .. Len(out) :
                   /\ out[i].status = "pending"
                   /\ Occurrences(out, AssignmentKey(out[i]))
                          = Occurrences(pending, AssignmentKey(out[i]))
                   /\ out[i].due_date.fmt = "ts" =>
                          /\ IsNum(out[i].days_remaining) /\ out[i].days_remaining.d = 1
                          /\ 2 * out[i].days_remaining.n <= 2 * out[i].due_date.day - last.at
                          /\ 2 * out[i].due_date.day - last.at < 2 * out[i].days_remaining.n + 2
            /\ \A i, j \in 1 .. Len(out) :
                   (i < j /\ IsNum(out[i].days_remaining) /\ IsNum(out[j].days_remaining))
                       => Le(out[i].days_remaining, out[j].days_remaining)

\* Given an assignment due tomorrow before one overdue, the result has the
\* overdue one first, with -2 days remaining, and the other with 0.
C16_Witness ==
    /\ last.op = "calculate_time_to_deadline"
    /\ Len(last.arg.df.rows) = 2
    /\ last.arg.df.rows[1].title = "Lab" /\ last.arg.df.rows[2].title = "Essay"
    /\ Len(last.ret.rows) = 2
    /\ last.ret.rows[1].title = "Essay" /\ last.ret.rows[1].days_remaining = Num(-2)
    /\ last.ret.rows[2].title = "Lab" /\ last.ret.rows[2].days_remaining = Num(0)

\* The marks C17 is about: at least two, each with a date that can be read and
\* a percentage that is a number.
DatedMarks(df) ==
    /\ Len(df.rows) >= 2
    /\ \A i \in 1 .. Len(df.rows) :
           /\ Has(df.rows[i], "date_added") /\ df.rows[i].date_added.fmt = "ymd"
           /\ Has(df.rows[i], "percentage") /\ IsNum(df.rows[i].percentage)

\* The orders of n marks, and whether an order is one by date.
Orders(n) == { f \in [1 .. n -> 1 .. n] : \A i, j \in 1 .. n : f[i] = f[j] => i = j }
ByDate(rows, f) ==
    \A i, j \in 1 .. Len(rows) :
        i < j => rows[f[i]].date_added.day <= rows[f[j]].date_added.day

RECURSIVE Total(_)
Total(y) == IF y = <<>> THEN Zero ELSE Add(Head(y), Total(Tail(y)))

\* The sum over positions i .. Len(y) of (x - xbar) * (y - ybar), x counted from 0.
RECURSIVE Codeviation(_, _, _, _)
Codeviation(y, i, xbar, ybar) ==
    IF i > Len(y) THEN Zero
    ELSE Add(Mul(Sub(Num(i - 1), xbar), Sub(y[i], ybar)), Codeviation(y, i + 1, xbar, ybar))

\* The slope of the least-squares line of y against the positions 0 .. n-1.
LeastSquaresSlope(y) ==
    LET n == Len(y)
        xbar == Rat(n - 1, 2)
        ybar == Div(Total(y), Num(n))
        x == [i \in 1 .. n |-> Num(i - 1)]
    IN  Div(Codeviation(y, 1, xbar, ybar), Codeviation(x, 1, xbar, xbar))

\* C17: for at least 2 dated marks, get_performance_trend returns Improving
\* iff the least-squares slope of the percentages in date order is > 2,
\* Declining iff it is < -2, and Stable otherwise; 60, 65, 70, 75 on four
\* increasing dates give Improving.
C17_TrendBySlope ==
    (last.op = "get_performance_trend" /\ DatedMarks(last.arg.df)) =>
        /\ \E f \in Orders(Len(last.arg.df.rows)) :
               /\ ByDate(last.arg.df.rows, f)
               /\ LET slope == LeastSquaresSlope([i \in 1 .. Len(last.arg.df.rows) |->
                                                    last.arg.df.rows[f[i]].percentage])
                  IN  /\ last.ret = "Improving" <=> Gt(slope, Num(2))
                      /\ last.ret = "Declining" <=> Lt(slope, Num(-2))
                      /\ last.ret = "Stable" <=> (Le(slope, Num(2)) /\ Ge(slope, Num(-2)))
        /\ last.arg.df.rows = FourMarks => last.ret = "Improving"

\* The trend of the four marks of 60, 65, 70 and 75 percent came out Improving.
C17_Witness ==
    /\ last.op = "get_performance_trend"
    /\ last.arg.df.rows = FourMarks
    /\ last.ret = "Improving"

\* The marks of a frame that give a point to the fit: those whose percentage
\* is a number, given or (in a frame without the column) derived from earned
\* and max_possible.
UsablePoints(df) ==
    { i \in 1 .. Len(df.rows) :
        IF "percentage" \in df.cols
        THEN IsNum(Cell(df.rows[i], "percentage"))
        ELSE /\ IsNum(Cell(df.rows[i], "earned"))
             /\ IsNum(Cell(df.rows[i], "max_possible")) }

TrendLabels == {"Improving", "Declining", "Stable"}

\* C18: get_performance_trend returns "Insufficient data" whenever fewer than
\* 2 usable points are given and "No date information" whenever the date
\* field is absent, as values and not as errors, and a trend label only
\* otherwise.
C18_TrendStatuses ==
    last.op = "get_performance_trend" =>
        /\ Cardinality(UsablePoints(last.arg.df)) < 2 => last.ret = "Insufficient data"
        /\ (Cardinality(UsablePoints(last.arg.df)) >= 2
               /\ "date_added" \notin last.arg.df.cols) => last.ret = "No date information"
        /\ last.ret \in TrendLabels =>
               (Cardinality(UsablePoints(last.arg.df)) >= 2
                  /\ "date_added" \in last.arg.df.cols)

\* C19: where add_carry_mark or update_carry_mark derives the percentage by
\* division and the divisor, max_possible, is 0, the percentage is 0.
C19_ZeroDivisorGivesZero ==
    ( /\ StoredMark
      /\ ~Has(last.arg, "percentage")
      /\ Has(last.arg, "earned") /\ Has(last.arg, "max_possible")
      /\ last.arg.max_possible = Zero )
        => (Has(Stored, "percentage") /\ Stored.percentage = Zero)

\* The frame without the records whose due date cannot be parsed.
WithoutUnparseable(df) ==
    [cols |-> df.cols,
     rows |-> SelectSeq(df.rows,
                        LAMBDA r : ~(Has(r, "due_date") /\ r.due_date.fmt = "bad"))]

\* C20: get_weekly_workload and calculate_time_to_deadline skip a record
\* whose due date cannot be parsed: they do not raise, and they return what
\* they return for the remaining records.
C20_UnparseableDatesSkipped ==
    ( /\ last.op \in {"get_weekly_workload", "calculate_time_to_deadline"}
      /\ {"title", "status", "due_date"} \subseteq last.arg.df.cols )
        => /\ last.ret # Raised
           /\ last.op = "get_weekly_workload" =>
                  last.ret = get_weekly_workload(WithoutUnparseable(last.arg.df)).ret
           /\ last.op = "calculate_time_to_deadline" =>
                  last.ret = calculate_time_to_deadline(WithoutUnparseable(last.arg.df)).ret

(***************************************************************************)
(* Study recommendations                                                   *)
(***************************************************************************)
\* f"{v:.1f}": the number rounded to tenths (ties to even), as the text shows it.
Format1(v) ==
    IF ~IsNum(v) THEN v
    ELSE LET t == 10 * v.n
             q == t \div v.d
             r == t - q * v.d
             up == 2 * r > v.d \/ (2 * r = v.d /\ q % 2 = 1)
         IN  Rat(IF up THEN q + 1 ELSE q, 10)

\* The course codes in the order groupby sorts them.
CourseOrder ==
    << "BCU 1023", "BSD 1323", "BSD 2143", "BUM 2123", "BUM 2413", "UHE 3032",
       "ULS 1312", "XYZ 9999" >>

\* The messages, by what they say.
FocusMessage(code, average) == [kind |-> "focus", course |-> code, shown |-> Format1(average)]
CompletionMessage(code, rate) == [kind |-> "completion", course |-> code, shown |-> Format1(rate)]
OverallMessage(tier) == [kind |-> "overall", course |-> tier, shown |-> Zero]
AddMarksMessage == [kind |-> "add marks", course |-> "", shown |-> Zero]
KeepUpMessage == [kind |-> "keep up", course |-> "", shown |-> Zero]
\* The list an analyzer's exception stands for.
RaisedList == << [kind |-> "KeyError", course |-> "", shown |-> Zero] >>

\* course_stats_df[course_stats_df['Average %'] < 70], a message for each row.
LowPerforming(stats) ==
    LET Low(r) == PLt(Cell(r, "Average %"), Num(70))
        low == SelectSeq(stats, Low)
    IN  [i \in 1 .. Len(low) |-> FocusMessage(low[i]["Course Code"], low[i]["Average %"])]

\* groupby('course_code').apply(completed / len * 100), the groups below 80.
LowCompletion(rows) ==
    LET Present(code) == Where(rows, "course_code", code) # <<>>
        groups == SelectSeq(CourseOrder, Present)
        Rate(code) ==
            LET x == Where(rows, "course_code", code)
            IN  Mul(Div(Num(Len(Where(x, "status", "completed"))), Num(Len(x))), Hundred)
        Low(code) == Lt(Rate(code), Num(80))
        low == SelectSeq(groups, Low)
    IN  [i \in 1 .. Len(low) |-> CompletionMessage(low[i], Rate(low[i]))]

\* "General recommendations based on overall performance"
OverallTier(stats) ==
    LET avg_performance == mean(Column(stats, "Average %"))
    IN  IF PLt(avg_performance, Num(60)) THEN "support"
        ELSE IF PLt(avg_performance, Num(75)) THEN "schedule"
        ELSE "great"

calculate_study_recommendations(course_stats_df, assignments_df) ==
    IF empty(course_stats_df) THEN <<AddMarksMessage>>
    ELSE IF ~({"Average %", "Course Code"} \subseteq course_stats_df.cols) THEN RaisedList
    ELSE IF ~empty(assignments_df)
            /\ ~({"course_code", "status"} \subseteq assignments_df.cols)
    THEN RaisedList
    ELSE LET recommendations ==
                 LowPerforming(course_stats_df.rows)
                     \o (IF ~empty(assignments_df) THEN LowCompletion(assignments_df.rows)
                         ELSE <<>>)
                     \o << OverallMessage(OverallTier(course_stats_df.rows)) >>
         IN  IF recommendations # <<>> THEN recommendations ELSE <<KeepUpMessage>>

\* A row of course statistics with the average the recommendations read.
AverageRow(code, average) ==
    [c \in {"Course Code", "Average %"} |-> IF c = "Course Code" THEN code ELSE average]

\* Statistics of no course, of one course (averages below, at and above 60,
\* 70 and 75) and of two.
RecommendationStats ==
    { DataFrame(<<>>) }
        \cup { DataFrame(<<AverageRow("BSD 1323", a)>>) :
                 a \in { Num(50), Num(65), Rat(6996, 100), Num(70), Num(75), Num(90) } }
        \cup { DataFrame(<<AverageRow("BSD 1323", Num(90)), AverageRow("BSD 2143", Num(50))>>),
               DataFrame(<<AverageRow("BSD 1323", Num(40)), AverageRow("BSD 2143", Num(60))>>),
               DataFrame(<<AverageRow("BSD 1323", Num(80)), AverageRow("BSD 2143", Num(85))>>) }

\* The assignment part of the insight pass: the message on the completion
\* rate, then the overdue and the upcoming message, each with its count.
assignment_insights(assignments_df) ==
    IF empty(assignments_df) THEN [overdue_count |-> 0, upcoming_count |-> 0, insights |-> <<>>]
    ELSE LET completion_rate == calculate_completion_rate(assignments_df)
             overdue == overdue_count(assignments_df.rows)
             upcoming == upcoming_count(assignments_df.rows)
         IN  [overdue_count |-> overdue,
              upcoming_count |-> upcoming,
              insights |->
                  << [kind |-> IF Ge(completion_rate, Num(90)) THEN "great job"
                               ELSE IF Ge(completion_rate, Num(70)) THEN "good"
                               ELSE "needs attention",
                      count |-> 0] >>
                  \o (IF overdue > 0 THEN << [kind |-> "overdue", count |-> overdue] >>
                      ELSE <<>>)
                  \o (IF upcoming > 0 THEN << [kind |-> "upcoming", count |-> upcoming] >>
                      ELSE <<>>)]

\* Assignments due yesterday, today, in 7 and in 8 days, pending and not, of
\* courses with all, some and none completed, and one whose date is no date.
InsightPool ==
    { Assignment("Essay", "BSD 1323", 224, "pending"),
      Assignment("Lab", "BSD 1323", 225, "pending"),
      Assignment("Poster", "BSD 1323", 232, "pending"),
      Assignment("Thesis", "BUM 2413", 233, "pending"),
      Assignment("Quiz", "BSD 2143", 224, "completed"),
      Assignment("Slides", "BUM 2413", 226, "in_progress"),
      [title |-> "Report", course_code |-> "BUM 2413", due_date |-> BadDate,
       status |-> "pending"] }

InitInsights ==
    /\ courses = get_default_courses
    /\ carry_marks = <<>>
    /\ final_exams = <<>>
    /\ assignments \in SeqsUpTo(InsightPool, MaxRecords) \cup {TwentyAssignments}
    /\ sample_data_loaded = FALSE
    /\ now = StartNow
    /\ last = Did("init", -9, <<>>, TRUE)
    /\ nops = 0

\* The insight pass of analytics_tab over the assignments of the store.
call_assignment_insights ==
    /\ nops < MaxCalls
    /\ ~empty(get_courses_df)
    /\ LET df == get_assignments_df(assignments)
       IN  Call("assignment_insights", [df |-> df], assignment_insights(df), [df |-> df])

call_calculate_study_recommendations ==
    \E stats \in RecommendationStats, df \in AssignmentFrames :
        LET arg == [course_stats_df |-> stats, assignments_df |-> df]
        IN  Call("calculate_study_recommendations", arg,
                 calculate_study_recommendations(stats, df), arg)

NextRecommendations ==
    \/ call_calculate_study_recommendations
    \/ call_assignment_insights

SpecRecommendations == InitInsights /\ [][NextRecommendations]_vars

\* The messages of one kind about one course in a list of recommendations.
MessagesOf(recs, kind, code) ==
    { i \in 1 .. Len(recs) : recs[i].kind = kind /\ recs[i].course = code }

\* The rows of statistics of a course whose average is below 70.
BelowSeventy(stats, code) ==
    { i \in 1 .. Len(stats) :
        stats[i]["Course Code"] = code /\ PLt(stats[i]["Average %"], Num(70)) }

\* The course has assignments and fewer than 80% of them are completed.
BelowEighty(rows, code) ==
    LET of == { i \in 1 .. Len(rows) : Has(rows[i], "course_code") /\ rows[i].course_code = code }
        done == { i \in of : Has(rows[i], "status") /\ rows[i].status = "completed" }
    IN  of # {} /\ 100 * Cardinality(done) < 80 * Cardinality(of)

\* The recommendations for statistics of at least one course.
RecommendationsMade ==
    /\ last.op = "calculate_study_recommendations"
    /\ ~empty(last.arg.course_stats_df)
    /\ last.ret # RaisedList

\* One message for every course whose average is below 70 and one for every
\* course whose assignment completion is below 80%, and no other such message.
C21_TargetedMessages ==
    RecommendationsMade =>
        \A n \in 1 .. Len(CourseOrder) :
            LET code == CourseOrder[n]
            IN  /\ Cardinality(MessagesOf(last.ret, "focus", code))
                      = Cardinality(BelowSeventy(last.arg.course_stats_df.rows, code))
                /\ Cardinality(MessagesOf(last.ret, "completion", code))
                      = IF BelowEighty(last.arg.assignments_df.rows, code) THEN 1 ELSE 0

\* C21: calculate_study_recommendations emits one targeted message for every
\* course whose average is < 70 and one for every course whose assignment
\* completion is < 80%, and the overall-average message only when no
\* targeted message was generated.
C21_OverallOnlyAsFallback ==
    RecommendationsMade =>
        /\ C21_TargetedMessages
        /\ (\E i \in 1 .. Len(last.ret) : last.ret[i].kind = "overall")
              <=> (\A i \in 1 .. Len(last.ret) :
                      last.ret[i].kind \notin {"focus", "completion"})

\* The pending assignments of a frame due d days from today with lo <= d <= hi.
PendingDue(rows, lo, hi) ==
    { i \in 1 .. Len(rows) :
        /\ Has(rows[i], "status") /\ rows[i].status = "pending"
        /\ Has(rows[i], "due_date") /\ rows[i].due_date.fmt = "ymd"
        /\ rows[i].due_date.day - now \div 2 >= lo
        /\ rows[i].due_date.day - now \div 2 <= hi }

\* The insights of a kind in a list of insights.
InsightsOf(insights, kind) ==
    { i \in 1 .. Len(insights) : insights[i].kind = kind }

\* C22: the insight pass counts a pending assignment due before today only
\* as overdue and one due in 0 to 7 days only as upcoming, counts a pending
\* assignment due later and every assignment that is not pending in neither,
\* and flags each count by its own message only when it is > 0.
C22_OverdueAndUpcoming ==
    last.op = "assignment_insights" =>
        LET rows == last.arg.df.rows
            overdue == PendingDue(rows, -400, -1)
            upcoming == PendingDue(rows, 0, 7)
        IN  /\ last.ret.overdue_count = Cardinality(overdue)
            /\ last.ret.upcoming_count = Cardinality(upcoming)
            /\ overdue \cap upcoming = {}
            /\ Cardinality(InsightsOf(last.ret.insights, "overdue"))
                  = IF Cardinality(overdue) > 0 THEN 1 ELSE 0
            /\ Cardinality(InsightsOf(last.ret.insights, "upcoming"))
                  = IF Cardinality(upcoming) > 0 THEN 1 ELSE 0
            /\ \A i \in InsightsOf(last.ret.insights, "overdue") :
                   last.ret.insights[i].count = Cardinality(overdue)
            /\ \A i \in InsightsOf(last.ret.insights, "upcoming") :
                   last.ret.insights[i].count = Cardinality(upcoming)

\* The pass ran over the twenty assignments: 2 pending ones are overdue, 4 are
\* due within the week, 4 are due later, and both messages were given.
C22_Witness ==
    /\ last.op = "assignment_insights"
    /\ Len(last.arg.df.rows) = 20
    /\ last.ret.overdue_count = 2
    /\ last.ret.upcoming_count = 4
    /\ InsightsOf(last.ret.insights, "overdue") # {}
    /\ InsightsOf(last.ret.insights, "upcoming") # {}

\* new holds exactly the records of old that are not of the course, unchanged
\* and in the order they had: the j-th record of old that is kept is the
\* record of new at the number of kept records up to j.
KeptInOrder(old, new, code) ==
    LET kept == { j \in 1 .. Len(old) :
                    ~(Has(old[j], "course_code") /\ old[j].course_code = code) }
    IN  /\ Len(new) = Cardinality(kept)
        /\ \A j \in kept : new[Cardinality({ k \in kept : k <= j })] = old[j]

\* C23: delete_course(index) with a valid index removes exactly the course
\* at that index and exactly the carry marks, assignments and final-exam
\* records of that course's code; every other course and record is kept
\* unchanged and in the same relative order.
C23_DeleteCourseFrame ==
    [][ (Calls("delete_course") /\ InRange(last'.idx, courses)) =>
          LET at == last'.idx + 1
              code == courses[at].code
          IN  /\ Len(courses') = Len(courses) - 1
              /\ \A j \in 1 .. Len(courses) :
                     /\ j < at => courses'[j] = courses[j]
                     /\ j > at => courses'[j - 1] = courses[j]
              /\ KeptInOrder(carry_marks, carry_marks', code)
              /\ KeptInOrder(assignments, assignments', code)
              /\ KeptInOrder(final_exams, final_exams', code)
              /\ sample_data_loaded' = sample_data_loaded ]_vars

\* The second course was deleted after the sample data was loaded: its mark
\* and its assignment are gone, and the three marks and four assignments of
\* other courses are where they were relative to each other.
C23_Witness ==
    /\ Done("delete_course") /\ last.idx = 1 /\ last.arg.code = "BSD 2143"
    /\ sample_data_loaded
    /\ Len(courses) = 6
    /\ Len(carry_marks) = 3
    /\ carry_marks[2].course_code = "BSD 1323" /\ carry_marks[3].course_code = "BUM 2413"
    /\ Len(assignments) = 4
    /\ assignments[1].course_code = "BSD 1323" /\ assignments[2].course_code = "BUM 2413"

\* The operations that take an index, and the collection each one indexes.
IndexedOps ==
    {"update_course", "delete_course", "update_assignment_status", "delete_assignment",
     "update_carry_mark", "delete_carry_mark"}
Indexed(op) ==
    IF op \in {"update_course", "delete_course"} THEN courses
    ELSE IF op \in {"update_assignment_status", "delete_assignment"} THEN assignments
    ELSE carry_marks

\* C24: update_course, delete_course, update_assignment_status,
\* delete_assignment, update_carry_mark and delete_carry_mark called with an
\* index outside 0..len-1 (negative ones included) leave the whole store
\* unchanged and raise no error.
C24_IndexOutOfRange ==
    [][ ( /\ nops' = nops + 1 /\ now' = now
          /\ last'.op \in IndexedOps
          /\ (last'.idx < 0 \/ last'.idx > Len(Indexed(last'.op)) - 1) )
        => ( /\ UNCHANGED <<courses, carry_marks, final_exams, assignments,
                            sample_data_loaded>>
             /\ last'.ret = FALSE ) ]_vars

\* delete_carry_mark(-1) was called on a store that holds carry marks, and
\* did nothing.
C24_Witness ==
    /\ last.op = "delete_carry_mark" /\ last.idx = -1 /\ ~last.ret
    /\ Len(carry_marks) = 2

\* C25: within one session load_sample_data takes effect at most once: the
\* first call replaces carry marks and assignments with the sample data, sets
\* sample_data_loaded and returns True; every later call, whatever was added,
\* updated or deleted in between, returns False and changes nothing; and
\* sample_data_loaded never returns to False.
C25_SampleDataLoadedOnce ==
    [][ /\ sample_data_loaded => sample_data_loaded'
        /\ (Calls("load_sample_data") /\ ~sample_data_loaded) =>
              ( /\ last'.ret = TRUE
                /\ carry_marks' = get_sample_carry_marks
                /\ assignments' = get_sample_assignments
                /\ sample_data_loaded'
                /\ UNCHANGED <<courses, final_exams>> )
        /\ (Calls("load_sample_data") /\ sample_data_loaded) =>
              ( /\ last'.ret = FALSE
                /\ UNCHANGED <<courses, carry_marks, final_exams, assignments,
                               sample_data_loaded>> ) ]_vars

\* The sample data was loaded, the store was changed, and a second
\* load_sample_data returned False and left the changed store alone.
C25_Witness ==
    /\ last.op = "load_sample_data" /\ ~last.ret
    /\ sample_data_loaded
    /\ nops = 3
    /\ carry_marks # get_sample_carry_marks

\* Every mark of the frame has a date that can be read, and no two have the
\* same.
DistinctDates(rows) ==
    /\ \A i \in 1 .. Len(rows) :
           Has(rows[i], "date_added") /\ rows[i].date_added.fmt = "ymd"
    /\ \A i, j \in 1 .. Len(rows) :
           rows[i].date_added.day = rows[j].date_added.day => i = j

\* C26: for marks with pairwise distinct date_added values, every
\* permutation of the same records gives the same label as the order
\* get_performance_trend was called with.
C26_TrendOrderIndependent ==
    (last.op = "get_performance_trend" /\ DistinctDates(last.arg.df.rows)) =>
        \A f \in Orders(Len(last.arg.df.rows)) :
            get_performance_trend(
                [cols |-> last.arg.df.cols,
                 rows |-> [i \in 1 .. Len(last.arg.df.rows) |-> last.arg.df.rows[f[i]]]],
                last.arg.lapack).ret = last.ret

\* The trend of a mark of 52 percent followed by an earlier mark of 90
\* percent came out Declining, as it does for the two in date order.
C26_Witness ==
    /\ last.op = "get_performance_trend"
    /\ Len(last.arg.df.rows) = 2
    /\ DistinctDates(last.arg.df.rows)
    /\ last.arg.df.rows[1].date_added.day > last.arg.df.rows[2].date_added.day
    /\ last.arg.df.rows[1].percentage = Num(52)
    /\ last.arg.df.rows[2].percentage = Num(90)
    /\ last.ret = "Declining"

====
